---- MODULE Spec2Model ----
(***************************************************************************)
(* Clipboard monitoring engine of copy-gum (src-tauri/src).                *)
(*                                                                         *)
(* The model follows clipboard_monitor.rs: the ClipboardMonitor fields and *)
(* their tokio mutexes, the lifecycle commands start/stop, the poll loop   *)
(* monitor_loop broken at its await points and I/O calls, the debounce and *)
(* ignore policy (should_save, should_ignore_content) and the image branch *)
(* (handle_clipboard_image with image_handler::save_clipboard_image).      *)
(* The OS clipboard, the settings file, the clock and the user are the     *)
(* environment.                                                            *)
(***************************************************************************)
EXTENDS Integers, Sequences, FiniteSets, TLC

(***************************************************************************)
(* Bounds of the model.                                                    *)
(***************************************************************************)
MaxTasks == 2
\* number of poll-loop tasks start() may spawn in one behaviour

MaxTicks == 3
\* number of clock advances (each of TickMs) in one behaviour

MaxCopies == 2
\* number of times the user puts something on the clipboard

MaxSettingsChanges == 1
\* number of times the settings manager rewrites the settings file

MaxIoFailures == 1
\* number of I/O calls (settings load, clipboard read, image save) that fail

MaxCallers == 3
\* number of calls of get_system_icon in one behaviour, each on its own thread

(***************************************************************************)
(* Program constants.                                                      *)
(***************************************************************************)
debounce_ms == 1000

SleepMs == 500

DefaultMaxImageSizeMb == 10

BytesPerMb == 1024 * 1024

MinTrimmedLen == 2

\* largest value of an i32 (AppSettings::max_image_size_mb)
MaxI32 == 2147483647

MinI32 == (-MaxI32) - 1

\* The clock advances in steps of one polling period.
TickMs == SleepMs

Tasks == 1 .. MaxTasks

NoTask == 0

(***************************************************************************)
(* Text.  A Rust String is modelled as the sequence of its chars: an ASCII *)
(* char is the one-character string, any other char is named by its code   *)
(* point ("U+00E9" is e-acute).  len() counts UTF-8 bytes, trim() strips   *)
(* Unicode white space at both ends, to_lowercase() maps each char.        *)
(***************************************************************************)
UpperChars ==
  << "A", "B", "C", "D", "E", "F", "G", "H", "I", "J", "K", "L", "M",
     "N", "O", "P", "Q", "R", "S", "T", "U", "V", "W", "X", "Y", "Z", "U+00C9" >>

LowerChars ==
  << "a", "b", "c", "d", "e", "f", "g", "h", "i", "j", "k", "l", "m",
     "n", "o", "p", "q", "r", "s", "t", "u", "v", "w", "x", "y", "z", "U+00E9" >>

\* chars of the model's texts that take more than one byte in UTF-8
TwoByteChars == { "U+00E9", "U+00C9", "U+00DF" }

ThreeByteChars == { "U+4E2D", "U+20AC" }

WhiteSpaceChars == { " ", "\t", "\n", "\r" }

Utf8Len(c) ==
  IF c \in TwoByteChars THEN 2 ELSE IF c \in ThreeByteChars THEN 3 ELSE 1

RECURSIVE ByteLen(_)
ByteLen(s) == IF s = << >> THEN 0 ELSE Utf8Len(Head(s)) + ByteLen(Tail(s))

RECURSIVE TrimStart(_)
TrimStart(s) ==
  IF s # << >> /\ Head(s) \in WhiteSpaceChars THEN TrimStart(Tail(s)) ELSE s

RECURSIVE TrimEnd(_)
TrimEnd(s) ==
  IF s # << >> /\ s[Len(s)] \in WhiteSpaceChars
  THEN TrimEnd(SubSeq(s, 1, Len(s) - 1))
  ELSE s

Trim(s) == TrimEnd(TrimStart(s))

ToLowerChar(c) ==
  IF \E i \in 1 .. Len(UpperChars) : UpperChars[i] = c
  THEN LowerChars[CHOOSE i \in 1 .. Len(UpperChars) : UpperChars[i] = c]
  ELSE c

ToLowercase(s) == [i \in 1 .. Len(s) |-> ToLowerChar(s[i])]

Contains(s, pattern) ==
  \E i \in 0 .. (Len(s) - Len(pattern)) :
    SubSeq(s, i + 1, i + Len(pattern)) = pattern

ignore_patterns ==
  << << "[", "l", "o", "g", "]" >>,
     << "[", "e", "r", "r", "o", "r", "]" >>,
     << "[", "w", "a", "r", "n", "]" >>,
     << "[", "i", "n", "f", "o", "]" >>,
     << "[", "d", "e", "b", "u", "g", "]" >>,
     << "c", "o", "n", "s", "o", "l", "e", "." >>,
     << "c", "l", "i", "p", "b", "o", "a", "r", "d", " ",
        "c", "h", "a", "n", "g", "e", "d", " ", "e", "v", "e", "n", "t" >>,
     << "s", "a", "v", "e", "d", " ", "c", "l", "i", "p", "b", "o", "a", "r", "d",
        " ", "i", "t", "e", "m" >>,
     << ".", "t", "s", ":" >>,
     << ".", "j", "s", ":" >>,
     << "(", "c", "l", "i", "p", "b", "o", "a", "r", "d", "s", "t", "o", "r", "e" >>,
     << "(", "d", "a", "t", "a", "b", "a", "s", "e", ".", "t", "s" >> >>

\* should_ignore_content searching the content as it is, not lower-cased
should_ignore_content_case_sensitive(content) ==
  \/ ByteLen(Trim(content)) < MinTrimmedLen
  \/ \E k \in 1 .. Len(ignore_patterns) : Contains(content, ignore_patterns[k])

should_ignore_content(content) ==
  \/ ByteLen(Trim(content)) < MinTrimmedLen
  \/ \E k \in 1 .. Len(ignore_patterns) :
       Contains(ToLowercase(content), ignore_patterns[k])

(***************************************************************************)
(* Inputs.  Texts the user may copy, and images: an image is its pixels    *)
(* (which decide the PNG bytes read_clipboard_image produces, hence the    *)
(* hash) and the length of those PNG bytes.                                *)
(***************************************************************************)
EmptyText == << >>

TextAB == << "a", "b" >>

TextHi == << "h", "i" >>

TextLog == << "[", "L", "O", "G", "]", " ", "x" >>

Texts == { TextAB, TextHi, TextLog }

NoImage == [pixels |-> "none", png_len |-> 0]

ImgA == [pixels |-> "A", png_len |-> 2048]

ImgBig == [pixels |-> "Big", png_len |-> (DefaultMaxImageSizeMb * BytesPerMb) + 1]

Images == { ImgA, ImgBig }

\* text representation the platform puts on the clipboard next to an image
ImageCompanionText == TextAB

DefaultSettings ==
  [save_images |-> TRUE, max_image_size_mb |-> DefaultMaxImageSizeMb]

SettingsValues ==
  { DefaultSettings,
    [save_images |-> FALSE, max_image_size_mb |-> DefaultMaxImageSizeMb] }

\* an image whose PNG bytes are exactly as long as the default limit
ImgAtLimit == [pixels |-> "AtLimit", png_len |-> DefaultMaxImageSizeMb * BytesPerMb]

SizeImages == { ImgA, ImgAtLimit, ImgBig }

\* values of max_image_size_mb the settings file may hold: any i32
MaxImageSizeMbValues == { MinI32, -1, 0, 1, DefaultMaxImageSizeMb, MaxI32 }

SizeSettingsValues ==
  { [save_images |-> TRUE, max_image_size_mb |-> mb] : mb \in MaxImageSizeMbValues }

(***************************************************************************)
(* Texts that exercise the ignore policy: every pattern as written, in     *)
(* upper case and inside other text; texts around the length limit; texts  *)
(* that only resemble a pattern.                                           *)
(***************************************************************************)
ToUpperChar(c) ==
  IF \E i \in 1 .. Len(LowerChars) : LowerChars[i] = c
  THEN UpperChars[CHOOSE i \in 1 .. Len(LowerChars) : LowerChars[i] = c]
  ELSE c

ToUppercase(s) == [i \in 1 .. Len(s) |-> ToUpperChar(s[i])]

PatternTexts ==
  UNION { { ignore_patterns[k],
            ToUppercase(ignore_patterns[k]),
            << "o", "k", " " >> \o ToUppercase(ignore_patterns[k]) \o << "4", "2" >> }
          : k \in 1 .. Len(ignore_patterns) }

ShortTexts ==
  { << " " >>, << "a" >>, << " ", "a", "\n" >>, << "\t", "\n" >>,
    << "U+00E9" >>, << " ", "U+4E2D", " " >>, << "a", " " >> }

NearMissTexts ==
  { << "l", "o", "g" >>, << "c", "o", "n", "s", "o", "l", "e" >>,
    << "a", ".", "t", "s" >>, << "[", "l", "o", "g" >> }

PolicyTexts == PatternTexts \cup ShortTexts \cup NearMissTexts \cup { TextAB }

\* A behaviour runs under one budget out of the following, chosen at the start and never
\* changed: one poll-loop task in the full environment (time, failures,
\* settings changes); several poll-loop tasks racing through their first
\* iterations over the user's copies (no sleep ends, nothing fails); several
\* poll-loop tasks started and stopped over an untouched clipboard, with time
\* for their sleeps to end; one poll-loop task and one copy of a text out of
\* the policy texts.
SingleLoopBudget ==
  [tasks |-> 1, ticks |-> MaxTicks, copies |-> MaxCopies,
   settings_changes |-> MaxSettingsChanges, io_failures |-> MaxIoFailures,
   texts |-> Texts, images |-> Images, settings |-> SettingsValues,
   functions |-> FALSE, callers |-> 0]

RaceBudget ==
  [tasks |-> MaxTasks, ticks |-> 0, copies |-> MaxCopies,
   settings_changes |-> 0, io_failures |-> 0,
   texts |-> Texts, images |-> Images, settings |-> { },
   functions |-> FALSE, callers |-> 0]

LifecycleBudget ==
  [tasks |-> MaxTasks, ticks |-> 1, copies |-> 0,
   settings_changes |-> 0, io_failures |-> 0,
   texts |-> { }, images |-> { }, settings |-> { },
   functions |-> FALSE, callers |-> 0]

PolicyBudget ==
  [tasks |-> 1, ticks |-> 1, copies |-> 1,
   settings_changes |-> 0, io_failures |-> 0,
   texts |-> PolicyTexts, images |-> { }, settings |-> { },
   functions |-> FALSE, callers |-> 0]

\* one poll-loop task over one copied image, with the size limit of the
\* settings file rewritten to any of the values above
SizeBudget ==
  [tasks |-> 1, ticks |-> 0, copies |-> 1,
   settings_changes |-> MaxSettingsChanges, io_failures |-> MaxIoFailures,
   texts |-> { }, images |-> SizeImages, settings |-> SizeSettingsValues,
   functions |-> FALSE, callers |-> 0]

\* no poll-loop task: the pure functions of content_detector.rs and
\* image_handler.rs are called directly, as their unit tests call them
FunctionsBudget ==
  [tasks |-> 0, ticks |-> 0, copies |-> 0,
   settings_changes |-> 0, io_failures |-> 0,
   texts |-> { }, images |-> { }, settings |-> { },
   functions |-> TRUE, callers |-> 0]

\* no poll-loop task: threads calling app_icons::get_system_icon
IconsBudget ==
  [tasks |-> 0, ticks |-> 0, copies |-> 0,
   settings_changes |-> 0, io_failures |-> 0,
   texts |-> { }, images |-> { }, settings |-> { },
   functions |-> FALSE, callers |-> MaxCallers]

Budgets ==
  { SingleLoopBudget, RaceBudget, LifecycleBudget, PolicyBudget, SizeBudget,
    FunctionsBudget, IconsBudget }

(***************************************************************************)
(* Content classifier, content_detector.rs.  A regex is a tree; After gives *)
(* the positions at which a match of the regex can end when it starts at   *)
(* one of the positions P of the text s (position p is after p chars).     *)
(***************************************************************************)
Digits == { "0", "1", "2", "3", "4", "5", "6", "7", "8", "9" }

AsciiLower == { LowerChars[i] : i \in 1 .. 26 }

AsciiUpper == { UpperChars[i] : i \in 1 .. 26 }

AsciiLetters == AsciiLower \cup AsciiUpper

HexDigits == Digits \cup { "a", "b", "c", "d", "e", "f", "A", "B", "C", "D", "E", "F" }

\* \w: Unicode letters and digits, and the underscore
WordChars ==
  AsciiLetters \cup Digits \cup { "_", "U+00E9", "U+00C9", "U+00DF", "U+4E2D" }

Chr(c) == [op |-> "class", neg |-> FALSE, chars |-> { c }]

Class(set) == [op |-> "class", neg |-> FALSE, chars |-> set]

NotClass(set) == [op |-> "class", neg |-> TRUE, chars |-> set]

Cat(parts) == [op |-> "cat", parts |-> parts]

Alt(parts) == [op |-> "alt", parts |-> parts]

Opt(re) == [op |-> "opt", arg |-> re]

Star(re) == [op |-> "star", arg |-> re]

Plus(re) == [op |-> "plus", arg |-> re]

Rep(re, n) == [op |-> "cat", parts |-> [i \in 1 .. n |-> re]]

Bol == [op |-> "bol"]

Eol == [op |-> "eol"]

Lit(text) == [op |-> "cat", parts |-> [i \in 1 .. Len(text) |-> Chr(text[i])]]

RECURSIVE After(_, _, _)
RECURSIVE AfterCat(_, _, _)
RECURSIVE AfterStar(_, _, _)
After(re, s, P) ==
  CASE re.op = "class" ->
         { p + 1 : p \in { q \in P : /\ q < Len(s)
                                     /\ (s[q + 1] \in re.chars) # re.neg } }
    [] re.op = "bol" -> P \cap { 0 }
    [] re.op = "eol" -> P \cap { Len(s) }
    [] re.op = "cat" -> AfterCat(re.parts, s, P)
    [] re.op = "alt" ->
         UNION { After(re.parts[i], s, P) : i \in 1 .. Len(re.parts) }
    [] re.op = "opt" -> P \cup After(re.arg, s, P)
    [] re.op = "star" -> AfterStar(re.arg, s, P)
    [] re.op = "plus" -> AfterStar(re.arg, s, After(re.arg, s, P))

AfterCat(parts, s, P) ==
  IF Len(parts) = 0 THEN P
  ELSE AfterCat(Tail(parts), s, After(Head(parts), s, P))

AfterStar(re, s, P) ==
  LET Q == P \cup After(re, s, P)
  IN IF Q = P THEN P ELSE AfterStar(re, s, Q)

\* Regex::is_match: the regex matches somewhere in s
is_match(re, s) == After(re, s, 0 .. Len(s)) # { }

NonSpace == NotClass(WhiteSpaceChars)

Space == Class(WhiteSpaceChars)

\* ^#([0-9A-Fa-f]{3}|[0-9A-Fa-f]{6}|[0-9A-Fa-f]{8})$
HEX_COLOR_REGEX ==
  Cat(<< Bol, Chr("#"),
         Alt(<< Rep(Class(HexDigits), 3), Rep(Class(HexDigits), 6),
                Rep(Class(HexDigits), 8) >>),
         Eol >>)

UrlTlds ==
  << Lit(<< "c", "o", "m" >>),
     Lit(<< "o", "r", "g" >>),
     Lit(<< "n", "e", "t" >>),
     Lit(<< "e", "d", "u" >>),
     Lit(<< "g", "o", "v" >>),
     Lit(<< "i", "o" >>),
     Lit(<< "c", "o" >>),
     Lit(<< "a", "p", "p" >>),
     Lit(<< "d", "e", "v" >>),
     Lit(<< "t", "e", "c", "h" >>),
     Lit(<< "a", "i" >>),
     Lit(<< "m", "e" >>),
     Lit(<< "i", "n", "f", "o" >>),
     Lit(<< "b", "i", "z" >>) >>


\* ^(https?://|www\.)[^\s]+|^[^\s]+\.(com|org|net|edu|gov|io|co|app|dev|tech|
\* ai|me|info|biz)(/[^\s]*)?$
URL_REGEX ==
  Alt(<< Cat(<< Bol,
                Alt(<< Cat(<< Lit(<< "h", "t", "t", "p" >>), Opt(Chr("s")),
                              Lit(<< ":", "/", "/" >>) >>),
                       Lit(<< "w", "w", "w", "." >>) >>),
                Plus(NonSpace) >>),
         Cat(<< Bol, Plus(NonSpace), Chr("."), Alt(UrlTlds),
                Opt(Cat(<< Chr("/"), Star(NonSpace) >>)), Eol >>) >>)

\* ^[a-zA-Z0-9._%+-]+@[a-zA-Z0-9.-]+\.[a-zA-Z]{2,}$
EMAIL_REGEX ==
  Cat(<< Bol,
         Plus(Class(AsciiLetters \cup Digits \cup { ".", "_", "%", "+", "-" })),
         Chr("@"),
         Plus(Class(AsciiLetters \cup Digits \cup { ".", "-" })),
         Chr("."),
         Rep(Class(AsciiLetters), 2), Star(Class(AsciiLetters)),
         Eol >>)

\* ^(\+?1?\s?)?(\([0-9]{3}\)|[0-9]{3})[\s\-]?[0-9]{3}[\s\-]?[0-9]{4}$
PHONE_REGEX ==
  Cat(<< Bol,
         Opt(Cat(<< Opt(Chr("+")), Opt(Chr("1")), Opt(Space) >>)),
         Alt(<< Cat(<< Chr("("), Rep(Class(Digits), 3), Chr(")") >>),
                Rep(Class(Digits), 3) >>),
         Opt(Class(WhiteSpaceChars \cup { "-" })),
         Rep(Class(Digits), 3),
         Opt(Class(WhiteSpaceChars \cup { "-" })),
         Rep(Class(Digits), 4),
         Eol >>)

\* ^[+-]?(\d+\.?\d*|\.\d+)$
NUMBER_REGEX ==
  Cat(<< Bol, Opt(Class({ "+", "-" })),
         Alt(<< Cat(<< Plus(Class(Digits)), Opt(Chr(".")), Star(Class(Digits)) >>),
                Cat(<< Chr("."), Plus(Class(Digits)) >>) >>),
         Eol >>)

\* keyword\s+\w+
KeywordName(keyword) == Cat(<< Lit(keyword), Plus(Space), Plus(Class(WordChars)) >>)

\* keyword\s+\w+\s*=
KeywordAssign(keyword) ==
  Cat(<< Lit(keyword), Plus(Space), Plus(Class(WordChars)), Star(Space), Chr("=") >>)

\* keyword\s+
KeywordSpace(keyword) == Cat(<< Lit(keyword), Plus(Space) >>)

\* (function\s+\w+|const\s+\w+\s*=|let\s+\w+\s*=|var\s+\w+\s*=|class\s+\w+|
\* def\s+\w+|import\s+|export\s+|return\s+|public\s+|private\s+|protected\s+|
\* \{[^}]*\}|;$|\=\>|\:\:)
CODE_REGEX ==
  Alt(<< KeywordName(<< "f", "u", "n", "c", "t", "i", "o", "n" >>),
         KeywordAssign(<< "c", "o", "n", "s", "t" >>),
         KeywordAssign(<< "l", "e", "t" >>),
         KeywordAssign(<< "v", "a", "r" >>),
         KeywordName(<< "c", "l", "a", "s", "s" >>),
         KeywordName(<< "d", "e", "f" >>),
         KeywordSpace(<< "i", "m", "p", "o", "r", "t" >>),
         KeywordSpace(<< "e", "x", "p", "o", "r", "t" >>),
         KeywordSpace(<< "r", "e", "t", "u", "r", "n" >>),
         KeywordSpace(<< "p", "u", "b", "l", "i", "c" >>),
         KeywordSpace(<< "p", "r", "i", "v", "a", "t", "e" >>),
         KeywordSpace(<< "p", "r", "o", "t", "e", "c", "t", "e", "d" >>),
         Cat(<< Chr("{"), Star(NotClass({ "}" })), Chr("}") >>),
         Cat(<< Chr(";"), Eol >>),
         Lit(<< "=", ">" >>),
         Lit(<< ":", ":" >>) >>)

ContentType == { "Color", "Url", "Email", "Phone", "Number", "Code", "Text" }

\* detect_content_type with the number test before the phone test
detect_content_type_number_first(content) ==
  LET trimmed == Trim(content)
  IN IF trimmed = << >> THEN "Text"
     ELSE IF is_match(HEX_COLOR_REGEX, trimmed) THEN "Color"
     ELSE IF is_match(URL_REGEX, trimmed) THEN "Url"
     ELSE IF is_match(EMAIL_REGEX, trimmed) THEN "Email"
     ELSE IF is_match(NUMBER_REGEX, trimmed) THEN "Number"
     ELSE IF is_match(PHONE_REGEX, trimmed) THEN "Phone"
     ELSE IF is_match(CODE_REGEX, trimmed) THEN "Code"
     ELSE "Text"

detect_content_type(content) ==
  LET trimmed == Trim(content)
  IN IF trimmed = << >> THEN "Text"
     ELSE IF is_match(HEX_COLOR_REGEX, trimmed) THEN "Color"
     ELSE IF is_match(URL_REGEX, trimmed) THEN "Url"
     ELSE IF is_match(EMAIL_REGEX, trimmed) THEN "Email"
     ELSE IF is_match(PHONE_REGEX, trimmed) THEN "Phone"
     ELSE IF is_match(NUMBER_REGEX, trimmed) THEN "Number"
     ELSE IF is_match(CODE_REGEX, trimmed) THEN "Code"
     ELSE "Text"

(***************************************************************************)
(* Inputs of the classifier: the texts of the unit tests and others of the *)
(* same kinds, and the texts built from the grammars below.                *)
(***************************************************************************)

SampleTexts ==
  {
    << "#", "F", "F", "F" >>,
    << "#", "F", "F", "F", "F", "F", "F" >>,
    << "#", "F", "F", "5", "7", "3", "3" >>,
    << "#", "f", "f", "5", "7", "3", "3" >>,
    << "#", "F", "F", "5", "7", "3", "3", "A", "A" >>,
    << "#", "G", "G", "G" >>,
    << "F", "F", "5", "7", "3", "3" >>,
    << "#", "F", "F", "5", "7" >>,
    << "#", "1", "2", "3" >>,
    << "h", "t", "t", "p", "s", ":", "/", "/", "e", "x", "a", "m", "p", "l", "e", ".", "c", "o", "m" >>,
    << "h", "t", "t", "p", ":", "/", "/", "e", "x", "a", "m", "p", "l", "e", ".", "c", "o", "m" >>,
    << "w", "w", "w", ".", "e", "x", "a", "m", "p", "l", "e", ".", "c", "o", "m" >>,
    << "e", "x", "a", "m", "p", "l", "e", ".", "c", "o", "m" >>,
    << "e", "x", "a", "m", "p", "l", "e", ".", "i", "o", "/", "p", "a", "t", "h" >>,
    << "a", "p", "i", ".", "e", "x", "a", "m", "p", "l", "e", ".", "c", "o" >>,
    << "n", "o", "t", " ", "a", " ", "u", "r", "l" >>,
    << "e", "x", "a", "m", "p", "l", "e" >>,
    << "n", "o", "t", " ", "a", "n", " ", "e", "m", "a", "i", "l" >>,
    << "@", "e", "x", "a", "m", "p", "l", "e", ".", "c", "o", "m" >>,
    << "u", "s", "e", "r", "@" >>,
    << "5", "5", "5", "-", "1", "2", "3", "-", "4", "5", "6", "7" >>,
    << "(", "5", "5", "5", ")", " ", "1", "2", "3", "-", "4", "5", "6", "7" >>,
    << "5", "5", "5", "1", "2", "3", "4", "5", "6", "7" >>,
    << "+", "1", " ", "5", "5", "5", " ", "1", "2", "3", " ", "4", "5", "6", "7" >>,
    << "1", "2", "3" >>,
    << "n", "o", "t", " ", "a", " ", "p", "h", "o", "n", "e" >>,
    << "1", "2", "3", ".", "4", "5", "6" >>,
    << "-", "1", "2", "3" >>,
    << "+", "4", "5", "6", ".", "7", "8" >>,
    << ".", "5" >>,
    << "1", "2", "3", "a", "b", "c" >>,
    << "n", "o", "t", " ", "a", " ", "n", "u", "m", "b", "e", "r" >>,
    << "f", "u", "n", "c", "t", "i", "o", "n", " ", "t", "e", "s", "t", "(", ")", " ", "{", " ", "r", "e", "t", "u", "r", "n", " ", "4", "2", ";", " ", "}" >>,
    << "c", "o", "n", "s", "t", " ", "v", "a", "l", "u", "e", " ", "=", " ", "1", "2", "3", ";" >>,
    << "l", "e", "t", " ", "x", " ", "=", " ", "1", "0", ";" >>,
    << "c", "l", "a", "s", "s", " ", "M", "y", "C", "l", "a", "s", "s", " ", "{", "}" >>,
    << "d", "e", "f", " ", "m", "y", "_", "f", "u", "n", "c", "t", "i", "o", "n", "(", ")", ":" >>,
    << "i", "m", "p", "o", "r", "t", " ", "R", "e", "a", "c", "t", " ", "f", "r", "o", "m", " ", "'", "r", "e", "a", "c", "t", "'", ";" >>,
    << "p", "u", "b", "l", "i", "c", " ", "s", "t", "a", "t", "i", "c", " ", "v", "o", "i", "d", " ", "m", "a", "i", "n", "(", ")" >>,
    << "T", "h", "i", "s", " ", "i", "s", " ", "p", "l", "a", "i", "n", " ", "t", "e", "x", "t" >>,
    << "H", "e", "l", "l", "o", " ", "W", "o", "r", "l", "d" >>,
    << "S", "o", "m", "e", " ", "r", "a", "n", "d", "o", "m", " ", "t", "e", "x", "t" >>,
    << "L", "o", "r", "e", "m", " ", "i", "p", "s", "u", "m", " ", "d", "o", "l", "o", "r", " ", "s", "i", "t", " ", "a", "m", "e", "t" >>,
    << >>,
    << " ", " " >>,
    << "\t", "\n" >>,
    << " ", "#", "F", "F", "F", "\n" >>,
    << " ", " ", "5", "5", "5", "1", "2", "3", "4", "5", "6", "7", " " >>,
    << "a", " ", "=", ">", " ", "b" >>,
    << "s", "t", "d", ":", ":", "f", "m", "t" >>,
    << "x", ";" >>,
    << "{", "}" >>,
    << "1", "." >>,
    << "w", "w", "w", "." >>,
    << "h", "t", "t", "p", ":", "/", "/" >>,
    << "h", "t", "t", "p", "s", ":", "/", "/", "a" >>,
    << "s", "e", "e", " ", "w", "w", "w", ".", "e", "x", "a", "m", "p", "l", "e", ".", "c", "o", "m" >>,
    << "e", "x", "a", "m", "p", "l", "e", ".", "c", "o", "m", "/" >>,
    << "e", "x", "a", "m", "p", "l", "e", ".", "c", "o", "m", "m", "u", "n", "i", "t", "y" >>,
    << "a", ".", "b" >>,
    << "+" >>,
    << "-", ".", "5" >>,
    << "1", "e", "5" >> }


EmailLocalParts ==
  {
    << "u", "s", "e", "r" >>,
    << "n", "a", "m", "e", "+", "t", "a", "g" >>,
    << "t", "e", "s", "t", ".", "u", "s", "e", "r" >>,
    << "a", "_", "b", "%", "1" >>,
    << "x", "-", "y" >> }


EmailDomains ==
  {
    << "e", "x", "a", "m", "p", "l", "e" >>,
    << "d", "o", "m", "a", "i", "n" >>,
    << "m", "a", "i", "l", ".", "e", "x", "a", "m", "p", "l", "e" >>,
    << "a", "-", "b" >>,
    << "x", "1" >> }


EmailTlds ==
  {
    << "c", "o", "m" >>,
    << "o", "r", "g" >>,
    << "u", "k" >>,
    << "d", "e" >>,
    << "i", "o" >>,
    << "i", "n", "f", "o" >>,
    << "c", "o", ".", "u", "k" >>,
    << "m", "u", "s", "e", "u", "m" >>,
    << "X", "Y" >> }


\* local@domain.tld
EmailTexts ==
  { l \o << "@" >> \o d \o << "." >> \o t :
      l \in EmailLocalParts, d \in EmailDomains, t \in EmailTlds }


HexDigitStrings ==
  {
    << "F", "F", "F" >>,
    << "f", "f", "f" >>,
    << "1", "2", "3" >>,
    << "a", "0", "B" >>,
    << "0", "9", "f" >>,
    << "F", "F", "F", "F", "F", "F" >>,
    << "f", "f", "5", "7", "3", "3" >>,
    << "0", "0", "0", "0", "0", "0" >>,
    << "1", "2", "A", "b", "C", "d" >>,
    << "F", "F", "5", "7", "3", "3", "A", "A" >>,
    << "0", "0", "0", "0", "0", "0", "0", "0" >>,
    << "d", "e", "a", "d", "B", "E", "E", "F" >>,
    << "1", "2", "3", "4", "5", "6", "7", "8" >> }


\* '#' followed by 3, 6 or 8 hex digits
ColorTexts == { << "#" >> \o h : h \in HexDigitStrings }


TenDigitTexts ==
  {
    << "5", "5", "5", "1", "2", "3", "4", "5", "6", "7" >>,
    << "0", "0", "0", "0", "0", "0", "0", "0", "0", "0" >>,
    << "1", "2", "3", "4", "5", "6", "7", "8", "9", "0" >>,
    << "9", "8", "7", "6", "5", "4", "3", "2", "1", "0" >>,
    << "1", "1", "1", "1", "1", "1", "1", "1", "1", "1" >> }


ClassifierTexts ==
  SampleTexts \cup EmailTexts \cup ColorTexts \cup TenDigitTexts
              \cup { << " " >> \o x \o << "\n" >> : x \in ColorTexts \cup TenDigitTexts }

(***************************************************************************)
(* Thumbnails and dominant color, image_handler.rs.  An image is its       *)
(* width, its height and its pixels.                                       *)
(***************************************************************************)
max_dimension == 400

sample_rate == 10

RECURSIVE Pow2(_)
Pow2(n) == IF n = 0 THEN 1 ELSE 2 * Pow2(n - 1)

RECURSIVE BitLen(_)
BitLen(n) == IF n = 0 THEN 0 ELSE 1 + BitLen(n \div 2)

\* bits of the significand of an f32
F32Bits == 24

\* q + 1 if the discarded part (rest out of whole) is above one half, or is
\* one half and q is odd; else q: round to nearest, ties to even
RoundTiesEven(q, rest, whole) ==
  IF 2 * rest > whole \/ (2 * rest = whole /\ q % 2 = 1) THEN q + 1 ELSE q

\* the first F32Bits bits of a / b: q = floor(a * 2^k / b) with rest r
RECURSIVE F32DivSteps(_, _, _, _)
F32DivSteps(q, r, k, b) ==
  IF q >= Pow2(F32Bits - 1) THEN [q |-> q, r |-> r, k |-> k]
  ELSE IF 2 * r >= b THEN F32DivSteps(2 * q + 1, 2 * r - b, k + 1, b)
  ELSE F32DivSteps(2 * q, 2 * r, k + 1, b)

\* a as f32 / b as f32 for integers 0 < a, b < 2^12: the f32 m / 2^k
F32Div(a, b) ==
  LET d == F32DivSteps(a \div b, a % b, 0, b)
  IN [m |-> RoundTiesEven(d.q, d.r, b), k |-> d.k]

\* n as f32 * f for an integer 0 <= n < 2^11 and an f32 f: the product n * f.m
\* is formed in two halves of 12 bits and rounded to F32Bits bits
F32MulInt(n, f) ==
  IF n = 0 THEN [m |-> 0, k |-> 0]
  ELSE LET low == n * (f.m % 4096)
           hi == n * (f.m \div 4096) + (low \div 4096)
           lo == low % 4096
           d == BitLen(hi) - 12
           q == hi * Pow2(12 - d) + (lo \div Pow2(d))
       IN [m |-> RoundTiesEven(q, lo % Pow2(d), Pow2(d)), k |-> f.k - d]

\* f as u32: truncation
F32AsU32(f) == f.m \div Pow2(f.k)

\* the values round() can give for a / b computed in floating point: the
\* nearest integer, either neighbour when a / b is exactly half way
RoundNearest(a, b) ==
  IF (2 * a) % b = 0 /\ ((2 * a) \div b) % 2 = 1
  THEN { a \div b, (a \div b) + 1 }
  ELSE { (2 * a + b) \div (2 * b) }

AtLeastOne(n) == IF n < 1 THEN 1 ELSE n

\* DynamicImage::resize(nwidth, nheight, filter): the aspect ratio is kept and
\* the image is scaled by the smaller of nwidth / width and nheight / height,
\* each dimension rounded and at least 1
resize(width, height, nwidth, nheight) ==
  LET by_width == nwidth * height <= nheight * width
      num == IF by_width THEN nwidth ELSE nheight
      den == IF by_width THEN width ELSE height
  IN { << AtLeastOne(w), AtLeastOne(h) >> :
         w \in RoundNearest(width * num, den),
         h \in RoundNearest(height * num, den) }

\* generate_thumbnail: the dimensions the thumbnail can have
generate_thumbnail(width, height) ==
  IF width <= max_dimension /\ height <= max_dimension
  THEN { << width, height >> }
  ELSE IF width > height
  THEN LET ratio == F32Div(max_dimension, width)
       IN resize(width, height, max_dimension, F32AsU32(F32MulInt(height, ratio)))
  ELSE LET ratio == F32Div(max_dimension, height)
       IN resize(width, height, F32AsU32(F32MulInt(width, ratio)), max_dimension)

ThumbnailDims == { 1, 3, 150, 200, 276, 399, 400, 401, 460, 799, 800, 1000 }

\* the pixel (x, y) of an image, as rgb8
Pixel(img, x, y) ==
  CASE img.pattern = "uniform" -> img.color
    [] img.pattern = "halves" ->
         IF x < 50 THEN << 255, 0, 0 >> ELSE << 0, 0, 255 >>
    [] img.pattern = "gradient" ->
         << (x * 7 + y * 13) % 256, (x + y) % 256, 255 - (x % 256) >>
    [] img.pattern = "grid" ->
         IF x % 10 = 0 /\ y % 10 = 0 THEN << 255, 255, 255 >> ELSE << 0, 0, 0 >>

ColorDims == { 0, 1, 10, 11, 21, 100 }

UniformColors == { << 255, 0, 0 >>, << 18, 52, 86 >>, << 0, 0, 0 >> }

ColorImages ==
  { [width |-> w, height |-> h, pattern |-> "uniform", color |-> c] :
      w \in ColorDims, h \in ColorDims, c \in UniformColors }
  \cup
  { [width |-> w, height |-> h, pattern |-> p, color |-> << 0, 0, 0 >>] :
      w \in ColorDims, h \in ColorDims, p \in { "halves", "gradient", "grid" } }

AddSums(s, t) ==
  [r |-> s.r + t.r, g |-> s.g + t.g, b |-> s.b + t.b, count |-> s.count + t.count]

\* for x in (x..width).step_by(sample_rate): the pixels of row y added up
RECURSIVE SumRow(_, _, _)
SumRow(img, x, y) ==
  IF x >= img.width THEN [r |-> 0, g |-> 0, b |-> 0, count |-> 0]
  ELSE LET pixel == Pixel(img, x, y)
       IN AddSums([r |-> pixel[1], g |-> pixel[2], b |-> pixel[3], count |-> 1],
                  SumRow(img, x + sample_rate, y))

\* for y in (y..height).step_by(sample_rate): the rows added up
RECURSIVE SumRows(_, _)
SumRows(img, y) ==
  IF y >= img.height THEN [r |-> 0, g |-> 0, b |-> 0, count |-> 0]
  ELSE AddSums(SumRow(img, 0, y), SumRows(img, y + sample_rate))

UpperHexDigits ==
  << "0", "1", "2", "3", "4", "5", "6", "7", "8", "9", "A", "B", "C", "D", "E", "F" >>

\* format!("{:02X}", n) for a u8 n
FormatHex2(n) == << UpperHexDigits[(n \div 16) + 1], UpperHexDigits[(n % 16) + 1] >>

None == [some |-> FALSE]

Some(value) == [some |-> TRUE, value |-> value]

\* extract_dominant_color with the averages rounded to nearest
extract_dominant_color_rounded(img) ==
  LET sums == SumRows(img, 0)
  IN IF sums.count = 0 THEN None
     ELSE Some(<< "#" >>
               \o FormatHex2(((2 * sums.r + sums.count) \div (2 * sums.count)) % 256)
               \o FormatHex2(((2 * sums.g + sums.count) \div (2 * sums.count)) % 256)
               \o FormatHex2(((2 * sums.b + sums.count) \div (2 * sums.count)) % 256))

extract_dominant_color(img) ==
  LET sums == SumRows(img, 0)
  IN IF sums.count = 0 THEN None
     ELSE Some(<< "#" >> \o FormatHex2((sums.r \div sums.count) % 256)
                        \o FormatHex2((sums.g \div sums.count) % 256)
                        \o FormatHex2((sums.b \div sums.count) % 256))

\* DefaultHasher over the PNG bytes, formatted as hex: a function of the bytes
ImageHash(image) == << "hash", image.pixels >>

NoHash == << >>

VARIABLES
  is_running,            \* ClipboardMonitor.is_running
  last_content,          \* ClipboardMonitor.last_content
  last_image_hash,       \* ClipboardMonitor.last_image_hash
  last_timestamp,        \* ClipboardMonitor.last_timestamp
  lock_last_content,     \* task holding the last_content mutex, or NoTask
  lock_last_image_hash,  \* task holding the last_image_hash mutex, or NoTask
  lock_last_timestamp,   \* task holding the last_timestamp mutex, or NoTask
  pc,                    \* where each poll-loop task is
  image_data,            \* monitor_loop local: the image read in this iteration
  content,               \* monitor_loop local: the text read in this iteration
  current_time,          \* monitor_loop local: the time the text was read
  wake_at,               \* when the task's sleep(500 ms) ends
  outcome,               \* what this iteration of the task did
  emitted,               \* events this iteration of the task emitted
  stop_seen,             \* stop() was called while the task was inside the loop,
                         \* and the task has not tested the flag since
  clip_text,             \* text on the OS clipboard
  clip_image,            \* image on the OS clipboard
  settings,              \* contents of the settings file
  now,                   \* system clock, ms
  events,                \* "clipboard-changed" events emitted, in order
  files,                 \* image files written, in order
  copies,                \* copy actions of the user so far
  settings_changes,      \* rewrites of the settings file so far
  io_failures,           \* failed I/O calls so far
  budget,                \* the budget this behaviour runs under
  call,                  \* the last direct call of a pure function: the
                         \* function, its argument and its result
  icon_cache,            \* app_icons::ICON_CACHE: bundle id -> cached result
  icon_lookups,          \* native icon lookups made so far, per bundle id
  icon_returned,         \* results get_system_icon has returned, per bundle id
  icon_call              \* the calls of get_system_icon: where each is, its
                         \* bundle id, the icon it fetched, and the results
                         \* that had been returned when it began

monitor == << is_running, last_content, last_image_hash, last_timestamp >>

locks == << lock_last_content, lock_last_image_hash, lock_last_timestamp >>

locals == << image_data, content, current_time, wake_at, outcome, emitted >>

icons == << icon_cache, icon_lookups, icon_returned, icon_call >>

env ==
  << clip_text, clip_image, settings, now, copies, settings_changes, budget,
     call, icons >>

vars ==
  << is_running, last_content, last_image_hash, last_timestamp,
     lock_last_content, lock_last_image_hash, lock_last_timestamp,
     pc, image_data, content, current_time, wake_at, outcome,
     emitted, stop_seen, clip_text, clip_image, settings, now, events, files,
     copies, settings_changes, io_failures, budget, call,
     icon_cache, icon_lookups, icon_returned, icon_call >>

(***************************************************************************)
(* app_icons.rs: bundle ids, the results of the native lookup (no icon, or *)
(* the icon as a data URL, here its name), and the entries of ICON_CACHE.  *)
(***************************************************************************)
BundleIds == { "com.apple.Safari", "unknown.app" }

NoIcon == "None"

NativeIcons == { NoIcon, "data:image/png;base64,safari" }

\* no entry for the bundle id: HashMap::get returns None
Vacant == "vacant"

Callers == 1 .. MaxCallers

NotCalled == [pc |-> "idle", bundle_id |-> "", icon |-> NoIcon, earlier |-> { }]

\* no direct call made: a call record holds the function, and for each
\* function its argument and its result (text and tag of
\* detect_content_type, dims and thumbnail of generate_thumbnail, img and
\* color of extract_dominant_color)
NoCall ==
  [fn |-> "none", text |-> << >>, tag |-> "", dims |-> << 0, 0 >>,
   thumbnail |-> << 0, 0 >>,
   img |-> [width |-> 0, height |-> 0, pattern |-> "uniform", color |-> << 0, 0, 0 >>],
   color |-> None]

\* monitor_loop has returned, or the task has panicked
Ended == { "done", "panicked" }

Live(t) == pc[t] \notin { "idle" } \cup Ended

\* the task has passed the loop condition and has not left the loop
InLoop(t) == pc[t] \notin { "idle", "loop_top" } \cup Ended

NumSpawned == Cardinality({ t \in Tasks : pc[t] # "idle" })

Init ==
  /\ is_running = FALSE
  /\ last_content = EmptyText
  /\ last_image_hash = NoHash
  /\ last_timestamp = 0
  /\ lock_last_content = NoTask
  /\ lock_last_image_hash = NoTask
  /\ lock_last_timestamp = NoTask
  /\ pc = [t \in Tasks |-> "idle"]
  /\ image_data = [t \in Tasks |-> NoImage]
  /\ content = [t \in Tasks |-> EmptyText]
  /\ current_time = [t \in Tasks |-> 0]
  /\ wake_at = [t \in Tasks |-> 0]
  /\ outcome = [t \in Tasks |-> "none"]
  /\ emitted = [t \in Tasks |-> 0]
  /\ stop_seen = [t \in Tasks |-> FALSE]
  /\ clip_text = EmptyText
  /\ clip_image = NoImage
  /\ settings = DefaultSettings
  /\ now = 0
  /\ events = << >>
  /\ files = << >>
  /\ copies = 0
  /\ settings_changes = 0
  /\ io_failures = 0
  /\ budget \in Budgets
  /\ call = NoCall
  /\ icon_cache = [b \in BundleIds |-> Vacant]
  /\ icon_lookups = [b \in BundleIds |-> 0]
  /\ icon_returned = [b \in BundleIds |-> { }]
  /\ icon_call = [c \in Callers |-> NotCalled]

(***************************************************************************)
(* Lifecycle commands.                                                     *)
(***************************************************************************)
\* start() without its early return: it spawns whether or not the flag is set
start_without_early_return ==
  /\ NumSpawned < budget.tasks
  /\ is_running' = TRUE
  /\ \E t \in Tasks :
       /\ pc[t] = "idle"
       /\ \A u \in Tasks : u < t => pc[u] # "idle"
       /\ pc' = [pc EXCEPT ![t] = "loop_top"]
  /\ UNCHANGED << last_content, last_image_hash, last_timestamp, locks,
                  locals, stop_seen, env, events, files, io_failures >>

\* start(): under the is_running mutex, return if the flag is set, else set
\* it, release the mutex and tokio::spawn a task running monitor_loop.  The
\* spawned task has not run yet: it is at the loop condition.
start ==
  /\ \/ is_running
     \/ NumSpawned < budget.tasks
  /\ IF is_running
     THEN UNCHANGED << is_running, pc >>
     ELSE /\ is_running' = TRUE
          /\ \E t \in Tasks :
               /\ pc[t] = "idle"
               /\ \A u \in Tasks : u < t => pc[u] # "idle"
               /\ pc' = [pc EXCEPT ![t] = "loop_top"]
  /\ UNCHANGED << last_content, last_image_hash, last_timestamp, locks,
                  locals, stop_seen, env, events, files, io_failures >>

\* stop(): under the is_running mutex, clear the flag
stop ==
  /\ is_running' = FALSE
  /\ stop_seen' = [t \in Tasks |-> stop_seen[t] \/ InLoop(t)]
  /\ UNCHANGED << last_content, last_image_hash, last_timestamp, locks,
                  pc, locals, env, events, files, io_failures >>

(***************************************************************************)
(* The poll loop, monitor_loop, one action per step of a task.             *)
(***************************************************************************)
\* the outcomes of an iteration in which a read, a load or a save failed, or
\* the clipboard held no text
FailedOutcomes ==
  { "text_read_error", "text_empty", "image_dir_unavailable",
    "image_save_failed" }

\* a failure propagated out of monitor_loop: the loop returns instead of
\* sleeping
GoSleep_return_on_failure(t, result) ==
  /\ pc' = [pc EXCEPT ![t] = IF result \in FailedOutcomes THEN "done" ELSE "sleep"]
  /\ wake_at' = [wake_at EXCEPT ![t] = now + SleepMs]
  /\ outcome' = [outcome EXCEPT ![t] = result]
  /\ image_data' = [image_data EXCEPT ![t] = NoImage]
  /\ content' = [content EXCEPT ![t] = EmptyText]
  /\ current_time' = [current_time EXCEPT ![t] = 0]

\* the task ends this iteration and enters sleep(500 ms); the locals of the
\* iteration are dead from here on
GoSleep(t, result) ==
  /\ pc' = [pc EXCEPT ![t] = "sleep"]
  /\ wake_at' = [wake_at EXCEPT ![t] = now + SleepMs]
  /\ outcome' = [outcome EXCEPT ![t] = result]
  /\ image_data' = [image_data EXCEPT ![t] = NoImage]
  /\ content' = [content EXCEPT ![t] = EmptyText]
  /\ current_time' = [current_time EXCEPT ![t] = 0]

\* the task goes on to the next step of this iteration
GoOn(t, step) ==
  /\ pc' = [pc EXCEPT ![t] = step]
  /\ UNCHANGED << wake_at, outcome, image_data, content, current_time >>

\* an I/O call may fail while failures are left in the budget
MayFail == io_failures < budget.io_failures

\* while true: the loop never tests the flag
loop_top_never_exits(t) ==
  /\ pc[t] = "loop_top"
  /\ pc' = [pc EXCEPT ![t] = "poll_image"]
  /\ stop_seen' = [stop_seen EXCEPT ![t] = FALSE]
  /\ UNCHANGED << monitor, locks, locals, env, events, files,
                  io_failures >>

\* while *self.is_running.lock().await
loop_top(t) ==
  /\ pc[t] = "loop_top"
  /\ pc' = [pc EXCEPT ![t] = IF is_running THEN "poll_image" ELSE "done"]
  /\ stop_seen' = [stop_seen EXCEPT ![t] = FALSE]
  /\ UNCHANGED << monitor, locks, locals, env, events, files,
                  io_failures >>

\* save_images read once when the monitor was built and kept since
save_images_read_once(loaded) == DefaultSettings.save_images

\* match AppSettings::load(&app) { Ok(settings) => settings.save_images,
\* Err(_) => true }, for a load that succeeds (loaded) or fails
load_save_images(loaded) == IF loaded THEN settings.save_images ELSE TRUE

\* The I/O at the head of an iteration: AppSettings::load for save_images
\* and, when save_images, read_clipboard_image, which is Some(png bytes) when
\* an image is on the clipboard and can be read (ok).
poll_image(t) ==
  /\ pc[t] = "poll_image"
  /\ \E loaded \in BOOLEAN, ok \in BOOLEAN :
       LET save_images == load_save_images(loaded)
           failed == (IF loaded THEN 0 ELSE 1) + (IF ok THEN 0 ELSE 1)
       IN /\ ok \/ (save_images /\ clip_image # NoImage)
          /\ io_failures + failed <= budget.io_failures
          /\ io_failures' = io_failures + failed
          /\ IF save_images /\ ok /\ clip_image # NoImage
             THEN /\ image_data' = [image_data EXCEPT ![t] = clip_image]
                  /\ pc' = [pc EXCEPT ![t] = "handle_clipboard_image"]
                  /\ UNCHANGED << wake_at, outcome, content, current_time >>
             ELSE GoOn(t, "read_clipboard")
  /\ UNCHANGED << monitor, locks, emitted, stop_seen, env, events, files >>

(***************************************************************************)
(* Image branch: handle_clipboard_image.  The last_image_hash guard taken  *)
(* at the comparison lives until the function returns.                     *)
(***************************************************************************)
(***************************************************************************)
(* u64 arithmetic.  A u64 is four 16-bit limbs, least significant first.   *)
(***************************************************************************)
Limb == 65536

KiB == 1024

\* x as u64 for an i32 x: sign extension to 64 bits
I32AsU64(x) ==
  << x % Limb, (x \div Limb) % Limb,
     IF x < 0 THEN Limb - 1 ELSE 0, IF x < 0 THEN Limb - 1 ELSE 0 >>

\* n as u64 for a length n (the model's lengths are below 2^31)
UsizeAsU64(n) == << n % Limb, n \div Limb, 0, 0 >>

\* a * k for a u64 a and 0 < k < 2^15: the 64 low bits of the product, and
\* whether the product needs more than 64 bits
MulU64(a, k) ==
  LET p1 == a[1] * k
      p2 == a[2] * k + (p1 \div Limb)
      p3 == a[3] * k + (p2 \div Limb)
      p4 == a[4] * k + (p3 \div Limb)
  IN [value |-> << p1 % Limb, p2 % Limb, p3 % Limb, p4 % Limb >>,
      overflow |-> p4 \div Limb > 0]

\* a > b for two u64
GtU64(a, b) ==
  \E i \in 1 .. 4 : a[i] > b[i] /\ \A j \in (i + 1) .. 4 : a[j] = b[j]

\* (settings.max_image_size_mb as u64) * 1024 * 1024: the value a build
\* without overflow checks computes, and whether a multiplication overflows
MaxSizeBytes(max_image_size_mb) ==
  LET kib == MulU64(I32AsU64(max_image_size_mb), KiB)
      bytes == MulU64(kib.value, KiB)
  IN [value |-> bytes.value, overflow |-> kib.overflow \/ bytes.overflow]

\* the limit of 1 MiB used when the settings cannot be loaded
load_max_size_bytes_one_mb(loaded) ==
  IF loaded THEN MaxSizeBytes(settings.max_image_size_mb)
  ELSE [value |-> UsizeAsU64(BytesPerMb), overflow |-> FALSE]

\* match AppSettings::load(app) { Ok(settings) => (settings.max_image_size_mb
\* as u64) * 1024 * 1024, Err(_) => 10 * 1024 * 1024 }
load_max_size_bytes(loaded) ==
  IF loaded THEN MaxSizeBytes(settings.max_image_size_mb)
  ELSE [value |-> UsizeAsU64(DefaultMaxImageSizeMb * KiB * KiB), overflow |-> FALSE]

\* the task panics: its future is dropped, monitor_loop never returns
Panic(t) ==
  /\ pc' = [pc EXCEPT ![t] = "panicked"]
  /\ outcome' = [outcome EXCEPT ![t] = "panicked"]
  /\ image_data' = [image_data EXCEPT ![t] = NoImage]
  /\ UNCHANGED << wake_at, content, current_time >>

TextEvent(c) == [isImage |-> FALSE, content |-> c, image |-> NoImage.pixels]

ImageEvent(image) ==
  [isImage |-> TRUE, content |-> EmptyText, image |-> image.pixels]

OriginalFile(image) == [image |-> image.pixels, thumb |-> FALSE]

ThumbnailFile(image) == [image |-> image.pixels, thumb |-> TRUE]

\* handle_clipboard_image with the guard of last_image_hash dropped after the
\* comparison and taken again to store the hash
handle_clipboard_image_drops_guard(t) ==
  /\ pc[t] = "handle_clipboard_image"
  /\ lock_last_image_hash = NoTask
  /\ IF last_image_hash = ImageHash(image_data[t])
     THEN /\ GoSleep(t, "image_duplicate")
          /\ UNCHANGED << lock_last_image_hash, io_failures >>
     ELSE \E loaded \in BOOLEAN, overflow_checks \in BOOLEAN :
            /\ loaded \/ MayFail
            /\ io_failures' = IF loaded THEN io_failures ELSE io_failures + 1
            /\ LET max_size_bytes == load_max_size_bytes(loaded)
                   image_size == UsizeAsU64(image_data[t].png_len)
               IN IF max_size_bytes.overflow /\ overflow_checks
                  THEN /\ Panic(t)
                       /\ UNCHANGED lock_last_image_hash
                  ELSE IF GtU64(image_size, max_size_bytes.value)
                  THEN /\ GoSleep(t, "image_oversized")
                       /\ UNCHANGED lock_last_image_hash
                  ELSE /\ GoOn(t, "save_clipboard_image")
                       /\ UNCHANGED lock_last_image_hash
  /\ UNCHANGED << monitor, lock_last_content, lock_last_timestamp, emitted,
                  stop_seen, env, events, files >>

\* a duplicate image is skipped and the iteration goes on to the text branch
handle_clipboard_image_duplicate_reads_text(t) ==
  /\ pc[t] = "handle_clipboard_image"
  /\ lock_last_image_hash = NoTask
  /\ IF last_image_hash = ImageHash(image_data[t])
     THEN /\ GoOn(t, "read_clipboard")
          /\ UNCHANGED << lock_last_image_hash, io_failures >>
     ELSE \E loaded \in BOOLEAN, overflow_checks \in BOOLEAN :
            /\ loaded \/ MayFail
            /\ io_failures' = IF loaded THEN io_failures ELSE io_failures + 1
            /\ LET max_size_bytes == load_max_size_bytes(loaded)
                   image_size == UsizeAsU64(image_data[t].png_len)
               IN IF max_size_bytes.overflow /\ overflow_checks
                  THEN /\ Panic(t)
                       /\ UNCHANGED lock_last_image_hash
                  ELSE IF GtU64(image_size, max_size_bytes.value)
                  THEN /\ GoSleep(t, "image_oversized")
                       /\ UNCHANGED lock_last_image_hash
                  ELSE /\ GoOn(t, "save_clipboard_image")
                       /\ lock_last_image_hash' = t
  /\ UNCHANGED << monitor, lock_last_content, lock_last_timestamp, emitted,
                  stop_seen, env, events, files >>

\* handle_clipboard_image up to the call of app_data_dir: hash the bytes,
\* lock last_image_hash, return if it is the same image; AppSettings::load for
\* max_image_size_mb, return if the image is larger.  A multiplication that
\* overflows panics in a build with overflow checks and wraps in one without.
handle_clipboard_image(t) ==
  /\ pc[t] = "handle_clipboard_image"
  /\ lock_last_image_hash = NoTask
  /\ IF last_image_hash = ImageHash(image_data[t])
     THEN /\ GoSleep(t, "image_duplicate")
          /\ UNCHANGED << lock_last_image_hash, io_failures >>
     ELSE \E loaded \in BOOLEAN, overflow_checks \in BOOLEAN :
            /\ loaded \/ MayFail
            /\ io_failures' = IF loaded THEN io_failures ELSE io_failures + 1
            /\ LET max_size_bytes == load_max_size_bytes(loaded)
                   image_size == UsizeAsU64(image_data[t].png_len)
               IN IF max_size_bytes.overflow /\ overflow_checks
                  THEN /\ Panic(t)
                       /\ UNCHANGED lock_last_image_hash
                  ELSE IF GtU64(image_size, max_size_bytes.value)
                  THEN /\ GoSleep(t, "image_oversized")
                       /\ UNCHANGED lock_last_image_hash
                  ELSE /\ GoOn(t, "save_clipboard_image")
                       /\ lock_last_image_hash' = t
  /\ UNCHANGED << monitor, lock_last_content, lock_last_timestamp, emitted,
                  stop_seen, env, events, files >>

\* what app_data_dir() followed by save_clipboard_image can do
SaveResults ==
  { "ok", "no_app_data_dir", "load_failed", "create_dir_failed",
    "save_failed", "thumbnail_failed" }

\* the files save_clipboard_image has written when it ends with result r
FilesWritten(image, r) ==
  IF r = "ok" THEN << OriginalFile(image), ThumbnailFile(image) >>
  ELSE IF r = "thumbnail_failed" THEN << OriginalFile(image) >>
  ELSE << >>

\* the event is emitted as soon as the original image is written
EventsEmittedBeforeThumbnail(image, r) ==
  IF r \in { "ok", "thumbnail_failed" } THEN << ImageEvent(image) >> ELSE << >>

\* the events save_image_to_database emits, called when the save is Ok
EventsEmitted(image, r) ==
  IF r = "ok" THEN << ImageEvent(image) >> ELSE << >>

\* the hash is never stored
HashNeverStored(image, r) == last_image_hash

\* the hash is stored before the save, so also when the save fails
HashStoredOnFailure(image, r) == ImageHash(image)

\* the hash handle_clipboard_image leaves in last_image_hash: the image's
\* when the save and save_image_to_database (always Ok(0)) succeeded
HashAfterSave(image, r) ==
  IF r = "ok" THEN ImageHash(image) ELSE last_image_hash

SaveOutcome(r) ==
  IF r = "ok" THEN "image_saved"
  ELSE IF r = "no_app_data_dir" THEN "image_dir_unavailable"
  ELSE "image_save_failed"

\* the image branch without its continue: after the save the iteration goes
\* on to the text branch
save_clipboard_image_without_continue(t) ==
  /\ pc[t] = "save_clipboard_image"
  /\ \E r \in SaveResults :
       /\ r = "ok" \/ MayFail
       /\ io_failures' = IF r = "ok" THEN io_failures ELSE io_failures + 1
       /\ files' = files \o FilesWritten(image_data[t], r)
       /\ events' = events \o EventsEmitted(image_data[t], r)
       /\ emitted' = [emitted EXCEPT ![t] = @ + Len(EventsEmitted(image_data[t], r))]
       /\ last_image_hash' = HashAfterSave(image_data[t], r)
       /\ GoOn(t, "read_clipboard")
  /\ lock_last_image_hash' = NoTask
  /\ UNCHANGED << is_running, last_content, last_timestamp, lock_last_content,
                  lock_last_timestamp, stop_seen, env >>

\* the rest of handle_clipboard_image, still under the last_image_hash guard:
\* app_data_dir(), save_clipboard_image, save_image_to_database, the update
\* of the hash; the guard is dropped at the return
save_clipboard_image(t) ==
  /\ pc[t] = "save_clipboard_image"
  /\ \E r \in SaveResults :
       /\ r = "ok" \/ MayFail
       /\ io_failures' = IF r = "ok" THEN io_failures ELSE io_failures + 1
       /\ files' = files \o FilesWritten(image_data[t], r)
       /\ events' = events \o EventsEmitted(image_data[t], r)
       /\ emitted' = [emitted EXCEPT ![t] = @ + Len(EventsEmitted(image_data[t], r))]
       /\ last_image_hash' = HashAfterSave(image_data[t], r)
       /\ GoSleep(t, SaveOutcome(r))
  /\ lock_last_image_hash' = NoTask
  /\ UNCHANGED << is_running, last_content, last_timestamp, lock_last_content,
                  lock_last_timestamp, stop_seen, env >>

(***************************************************************************)
(* Text branch: read_clipboard, should_save, save_to_database and the      *)
(* update of last_content and last_timestamp.                              *)
(***************************************************************************)
\* read_clipboard, then SystemTime::now()
read_clipboard(t) ==
  /\ pc[t] = "read_clipboard"
  /\ \E ok \in BOOLEAN :
       /\ ok \/ MayFail
       /\ io_failures' = IF ok THEN io_failures ELSE io_failures + 1
       /\ IF ~ok
          THEN GoSleep(t, "text_read_error")
          ELSE IF clip_text = EmptyText
          THEN GoSleep(t, "text_empty")
          ELSE /\ content' = [content EXCEPT ![t] = clip_text]
               /\ current_time' = [current_time EXCEPT ![t] = now]
               /\ pc' = [pc EXCEPT ![t] = "should_save"]
               /\ UNCHANGED << wake_at, outcome, image_data >>
  /\ UNCHANGED << monitor, locks, emitted, stop_seen, env, events,
                  files >>

\* should_save with the window compared by >= instead of >
should_save_inclusive(new_content, time) ==
  /\ ~should_ignore_content(new_content)
  /\ \/ new_content # last_content
     \/ time - last_timestamp >= debounce_ms

\* the value should_save returns for new_content read at time, given the
\* last_content and last_timestamp it reads under their mutexes
should_save(new_content, time) ==
  /\ ~should_ignore_content(new_content)
  /\ \/ new_content # last_content
     \/ time - last_timestamp > debounce_ms

\* should_save up to its first await: the ignore test, then the lock of
\* last_content
should_save_lock_content(t) ==
  /\ pc[t] = "should_save"
  /\ IF should_ignore_content(content[t])
     THEN /\ GoSleep(t, "text_ignored")
          /\ UNCHANGED lock_last_content
     ELSE /\ lock_last_content = NoTask
          /\ lock_last_content' = t
          /\ GoOn(t, "should_save_timestamp")
  /\ UNCHANGED << monitor, lock_last_image_hash, lock_last_timestamp, emitted,
                  stop_seen, env, events, files, io_failures >>

\* a rejected repeat restarts the debounce window: should_save stores the
\* time of the repeat it rejects
should_save_extends_window(t) ==
  /\ pc[t] = "should_save_timestamp"
  /\ lock_last_timestamp = NoTask
  /\ lock_last_content' = NoTask
  /\ IF should_save(content[t], current_time[t])
     THEN /\ GoOn(t, "save_to_database")
          /\ UNCHANGED last_timestamp
     ELSE /\ GoSleep(t, "text_debounced")
          /\ last_timestamp' = current_time[t]
  /\ UNCHANGED << is_running, last_content, last_image_hash,
                  lock_last_image_hash, lock_last_timestamp, emitted,
                  stop_seen, env, events, files, io_failures >>

\* should_save inlined in monitor_loop: the guard of last_content lives on
\* into the branch that saves and locks last_content again
should_save_keeps_guard(t) ==
  /\ pc[t] = "should_save_timestamp"
  /\ lock_last_timestamp = NoTask
  /\ IF should_save(content[t], current_time[t])
     THEN /\ GoOn(t, "save_to_database")
          /\ UNCHANGED lock_last_content
     ELSE /\ GoSleep(t, "text_debounced")
          /\ lock_last_content' = NoTask
  /\ UNCHANGED << monitor, lock_last_image_hash, lock_last_timestamp, emitted,
                  stop_seen, env, events, files, io_failures >>

\* should_save from the lock of last_timestamp to its return, where both
\* guards are dropped
should_save_lock_timestamp(t) ==
  /\ pc[t] = "should_save_timestamp"
  /\ lock_last_timestamp = NoTask
  /\ lock_last_content' = NoTask
  /\ IF should_save(content[t], current_time[t])
     THEN GoOn(t, "save_to_database")
     ELSE GoSleep(t, "text_debounced")
  /\ UNCHANGED << monitor, lock_last_image_hash, lock_last_timestamp, emitted,
                  stop_seen, env, events, files, io_failures >>

\* save_to_database: classify, attribute, emit "clipboard-changed"
save_to_database(t) ==
  /\ pc[t] = "save_to_database"
  /\ events' = Append(events, TextEvent(content[t]))
  /\ emitted' = [emitted EXCEPT ![t] = @ + 1]
  /\ GoOn(t, "update_last_content")
  /\ UNCHANGED << monitor, locks, stop_seen, env, files,
                  io_failures >>

\* let mut last_content = self.last_content.lock().await
update_lock_content(t) ==
  /\ pc[t] = "update_last_content"
  /\ lock_last_content = NoTask
  /\ lock_last_content' = t
  /\ GoOn(t, "update_last_timestamp")
  /\ UNCHANGED << monitor, lock_last_image_hash, lock_last_timestamp, emitted,
                  stop_seen, env, events, files, io_failures >>

\* the update of an accepted text also forgets the last image
update_lock_timestamp_resets_hash(t) ==
  /\ pc[t] = "update_last_timestamp"
  /\ lock_last_timestamp = NoTask
  /\ last_content' = content[t]
  /\ last_timestamp' = current_time[t]
  /\ last_image_hash' = NoHash
  /\ lock_last_content' = NoTask
  /\ GoSleep(t, "text_accepted")
  /\ UNCHANGED << is_running, lock_last_image_hash,
                  lock_last_timestamp, emitted, stop_seen, env,
                  events, files, io_failures >>

\* lock last_timestamp, store content and current_time, drop both guards
update_lock_timestamp(t) ==
  /\ pc[t] = "update_last_timestamp"
  /\ lock_last_timestamp = NoTask
  /\ last_content' = content[t]
  /\ last_timestamp' = current_time[t]
  /\ lock_last_content' = NoTask
  /\ GoSleep(t, "text_accepted")
  /\ UNCHANGED << is_running, last_image_hash, lock_last_image_hash,
                  lock_last_timestamp, emitted, stop_seen, env,
                  events, files, io_failures >>

\* sleep(Duration::from_millis(500)) is over: back to the loop condition
wake(t) ==
  /\ pc[t] = "sleep"
  /\ now >= wake_at[t]
  /\ pc' = [pc EXCEPT ![t] = "loop_top"]
  /\ wake_at' = [wake_at EXCEPT ![t] = 0]
  /\ outcome' = [outcome EXCEPT ![t] = "none"]
  /\ emitted' = [emitted EXCEPT ![t] = 0]
  /\ UNCHANGED << monitor, locks, image_data, content, current_time,
                  stop_seen, env, events, files, io_failures >>

(***************************************************************************)
(* Environment: the user, the settings manager and the clock.              *)
(***************************************************************************)
copy_text(x) ==
  /\ copies < budget.copies
  /\ copies' = copies + 1
  /\ clip_text' = x
  /\ clip_image' = NoImage
  /\ UNCHANGED << monitor, locks, pc, locals, stop_seen, settings,
                  now, settings_changes, events, files, io_failures, budget, call, icons >>

copy_image(image) ==
  /\ copies < budget.copies
  /\ copies' = copies + 1
  /\ clip_image' = image
  /\ clip_text' = ImageCompanionText
  /\ UNCHANGED << monitor, locks, pc, locals, stop_seen, settings,
                  now, settings_changes, events, files, io_failures, budget, call, icons >>

change_settings(s) ==
  /\ settings_changes < budget.settings_changes
  /\ s # settings
  /\ settings_changes' = settings_changes + 1
  /\ settings' = s
  /\ UNCHANGED << monitor, locks, pc, locals, stop_seen, clip_text,
                  clip_image, now, copies, events, files, io_failures, budget, call, icons >>

tick ==
  /\ now < budget.ticks * TickMs
  /\ now' = now + TickMs
  /\ UNCHANGED << monitor, locks, pc, locals, stop_seen, clip_text,
                  clip_image, settings, copies, settings_changes, events,
                  files, io_failures, budget, call, icons >>

(***************************************************************************)
(* Direct calls of the pure functions.                                     *)
(***************************************************************************)
Called(made) ==
  /\ budget.functions
  /\ call = NoCall
  /\ call' = made
  /\ UNCHANGED << monitor, locks, pc, locals, stop_seen, clip_text, clip_image,
                  settings, now, copies, settings_changes, events, files,
                  io_failures, budget, icons >>

call_detect_content_type(text) ==
  Called([NoCall EXCEPT !.fn = "detect_content_type", !.text = text,
                        !.tag = detect_content_type(text)])

call_generate_thumbnail(width, height) ==
  \E thumbnail \in generate_thumbnail(width, height) :
    Called([NoCall EXCEPT !.fn = "generate_thumbnail",
                          !.dims = << width, height >>, !.thumbnail = thumbnail])

call_extract_dominant_color(img) ==
  Called([NoCall EXCEPT !.fn = "extract_dominant_color", !.img = img,
                        !.color = extract_dominant_color(img)])

Functions ==
  \/ \E text \in ClassifierTexts : call_detect_content_type(text)
  \/ \E width \in ThumbnailDims, height \in ThumbnailDims :
       call_generate_thumbnail(width, height)
  \/ \E img \in ColorImages : call_extract_dominant_color(img)

(***************************************************************************)
(* app_icons::get_system_icon, one action per step of a calling thread.    *)
(* Each hold of the ICON_CACHE mutex is one step.                          *)
(***************************************************************************)
Others ==
  << monitor, locks, pc, locals, stop_seen, clip_text, clip_image, settings,
     now, copies, settings_changes, events, files, io_failures, budget, call >>

\* the return of get_system_icon
Return(c, icon) ==
  /\ icon_call' = [icon_call EXCEPT ![c].pc = "returned", ![c].icon = icon]
  /\ icon_returned' =
       [icon_returned EXCEPT ![icon_call[c].bundle_id] = @ \cup { icon }]

\* a thread calls get_system_icon(bundle_id)
get_system_icon(c, bundle_id) ==
  /\ c <= budget.callers
  /\ icon_call[c].pc = "idle"
  /\ \A d \in Callers : d < c => icon_call[d].pc # "idle"
  /\ icon_call' = [icon_call EXCEPT ![c] =
       [pc |-> "check", bundle_id |-> bundle_id, icon |-> NoIcon,
        earlier |-> icon_returned[bundle_id]]]
  /\ UNCHANGED << icon_cache, icon_lookups, icon_returned, Others >>

\* if let Ok(cache) = ICON_CACHE.lock() { if let Some(cached) =
\* cache.get(bundle_id) { return cached.clone(); } }
check_cache(c) ==
  /\ icon_call[c].pc = "check"
  /\ LET bundle_id == icon_call[c].bundle_id
     IN IF icon_cache[bundle_id] # Vacant
        THEN /\ Return(c, icon_cache[bundle_id])
             /\ UNCHANGED << icon_cache, icon_lookups >>
        ELSE /\ icon_call' = [icon_call EXCEPT ![c].pc = "fetch"]
             /\ UNCHANGED << icon_cache, icon_lookups, icon_returned >>
  /\ UNCHANGED Others

\* let icon = fetch_system_icon(bundle_id): the native lookup, with no lock
\* held; what it finds depends on the system at that moment
fetch_system_icon(c) ==
  /\ icon_call[c].pc = "fetch"
  /\ \E icon \in NativeIcons :
       icon_call' = [icon_call EXCEPT ![c].pc = "insert", ![c].icon = icon]
  /\ icon_lookups' = [icon_lookups EXCEPT ![icon_call[c].bundle_id] = @ + 1]
  /\ UNCHANGED << icon_cache, icon_returned, Others >>

\* if let Ok(mut cache) = ICON_CACHE.lock() { cache.insert(bundle_id, icon) }
\* and the return of icon
cache_insert(c) ==
  /\ icon_call[c].pc = "insert"
  /\ icon_cache' = [icon_cache EXCEPT ![icon_call[c].bundle_id] = icon_call[c].icon]
  /\ Return(c, icon_call[c].icon)
  /\ UNCHANGED << icon_lookups, Others >>

Icons ==
  \/ \E c \in Callers, bundle_id \in BundleIds : get_system_icon(c, bundle_id)
  \/ \E c \in Callers : check_cache(c)
  \/ \E c \in Callers : fetch_system_icon(c)
  \/ \E c \in Callers : cache_insert(c)

TaskStep(t) ==
  \/ loop_top(t)
  \/ poll_image(t)
  \/ handle_clipboard_image(t)
  \/ save_clipboard_image(t)
  \/ read_clipboard(t)
  \/ should_save_lock_content(t)
  \/ should_save_lock_timestamp(t)
  \/ save_to_database(t)
  \/ update_lock_content(t)
  \/ update_lock_timestamp(t)
  \/ wake(t)

Environment ==
  \/ \E x \in budget.texts : copy_text(x)
  \/ \E image \in budget.images : copy_image(image)
  \/ \E s \in budget.settings : change_settings(s)
  \/ tick

Next ==
  \/ start
  \/ stop
  \/ \E t \in Tasks : TaskStep(t)
  \/ Environment
  \/ Functions
  \/ Icons

Spec == Init /\ [][Next]_vars

(***************************************************************************)
(* Progress.  The clock of Spec stops at its last tick, and a sleep that   *)
(* begins there never ends.  For progress after a stop(), time goes on     *)
(* after the last tick without being counted, once the flag is false: the  *)
(* sleeps of 500 ms in course end.  The tokio runtime runs every task that *)
(* can take a step, and time passes.                                       *)
(***************************************************************************)
time_passes ==
  /\ ~is_running
  /\ now = budget.ticks * TickMs
  /\ \E t \in Tasks : pc[t] = "sleep" /\ wake_at[t] > now
  /\ wake_at' = [t \in Tasks |-> IF wake_at[t] > now THEN now ELSE wake_at[t]]
  /\ UNCHANGED << monitor, locks, pc, image_data, content, current_time,
                  outcome, emitted, stop_seen, env, events, files, io_failures >>

FairNext == Next \/ time_passes

FairSpec ==
  /\ Init
  /\ [][FairNext]_vars
  /\ \A t \in Tasks : WF_vars(TaskStep(t))
  /\ WF_vars(tick)
  /\ WF_vars(time_passes)

(***************************************************************************)
(* Properties.                                                             *)
(***************************************************************************)
LoopTasks == { t \in Tasks : InLoop(t) }

LiveTasks == { t \in Tasks : Live(t) }

TextEvents == { i \in 1 .. Len(events) : ~events[i].isImage }

ImageEventsOf(pixels) ==
  { i \in 1 .. Len(events) : events[i].isImage /\ events[i].image = pixels }

ThumbnailsOf(pixels) ==
  { i \in 1 .. Len(files) : files[i].thumb /\ files[i].image = pixels }

\* C1: at most one poll-loop task is inside the loop (in an iteration or in
\* its sleep) at any time, whatever the interleaving of start() and stop()
\* with the loop's steps.
C1_AtMostOneLoop == Cardinality(LoopTasks) <= 1

\* C2: a text copied once and left on the clipboard, polled by one loop, is
\* emitted once, however long it stays there.
C2_OneRecordPerCopy ==
  (budget.tasks = 1 /\ copies = 1 /\ clip_text = TextAB /\ clip_image = NoImage)
    => Cardinality(TextEvents) <= 1

C4_StoppedLoopExits ==
  [][ \A t \in Tasks : (stop_seen[t] /\ loop_top(t)) => pc'[t] = "done" ]_vars

\* C5: a text that passed the ignore policy is accepted if and only if it
\* differs from last_content or more than 1000 ms have passed since
\* last_timestamp: a repeat 500 ms or 1000 ms later is rejected, a repeat
\* 1500 ms later is accepted.
C5_DebounceDecision ==
  [][ \A t \in Tasks :
        should_save_lock_timestamp(t) =>
          LET same == content[t] = last_content
              elapsed == current_time[t] - last_timestamp
              accepted == pc'[t] = "save_to_database"
          IN /\ accepted <=> (~same \/ elapsed > 1000)
             /\ (same /\ elapsed \in { 500, 1000 }) => ~accepted
             /\ (same /\ elapsed = 1500) => accepted ]_vars

\* C5 witness: a repeat of last_content read 1500 ms after last_timestamp has
\* been accepted by should_save
C5_Witness ==
  \E t \in Tasks :
    /\ pc[t] = "save_to_database"
    /\ content[t] = last_content
    /\ current_time[t] - last_timestamp = 1500

\* C6: no text whose lower-cased form contains a pattern of the denylist is
\* ever accepted or emitted: none is in an emitted event, none is past
\* should_save in a task, none is stored in last_content.
HasIgnorePattern(text) ==
  \E k \in 1 .. Len(ignore_patterns) :
    Contains(ToLowercase(text), ignore_patterns[k])

C6_DenylistNeverEmitted ==
  /\ \A i \in TextEvents : ~HasIgnorePattern(events[i].content)
  /\ ~HasIgnorePattern(last_content)
  /\ \A t \in Tasks :
       pc[t] \in { "should_save_timestamp", "save_to_database",
                   "update_last_content", "update_last_timestamp" }
         => ~HasIgnorePattern(content[t])

\* C6 witness: an upper-case text holding "[LOG]" inside other text was read
\* and rejected by the ignore policy, and nothing was emitted
C6_Witness ==
  /\ clip_text = << "o", "k", " ", "[", "L", "O", "G", "]", "4", "2" >>
  /\ \E t \in Tasks : outcome[t] = "text_ignored"
  /\ events = << >>

\* C7: no text whose trimmed content has fewer than 2 characters is ever
\* emitted.
C7_ShortTextNeverEmitted ==
  \A i \in TextEvents : Len(Trim(events[i].content)) >= 2

\* C8: an image copied once and presented to every poll cycle is saved and
\* emitted at most once: one thumbnail, one event, and once the pair is
\* written no later cycle writes a file for it.
C8_ImageDedup ==
  (copies = 1 /\ clip_image # NoImage) =>
    /\ Cardinality(ImageEventsOf(clip_image.pixels)) <= 1
    /\ Cardinality(ThumbnailsOf(clip_image.pixels)) <= 1
    /\ ThumbnailsOf(clip_image.pixels) # { } =>
         /\ files[Len(files)] = ThumbnailFile(clip_image)
         /\ Cardinality(ImageEventsOf(clip_image.pixels)) = 1

\* C8 witness: the image was saved and emitted once, and a later cycle that
\* read the same image rejected it as a duplicate
C8_Witness ==
  /\ copies = 1
  /\ clip_image = ImgA
  /\ \E t \in Tasks : outcome[t] = "image_duplicate"
  /\ events = << ImageEvent(ImgA) >>
  /\ files = << OriginalFile(ImgA), ThumbnailFile(ImgA) >>

ImageFailures ==
  { "image_oversized", "image_dir_unavailable", "image_save_failed" }

\* C9: last_image_hash changes only in the step that saved the image and its
\* thumbnail and emitted the event, and then to that image's hash; a cycle
\* that ends with the image oversized, the directory unavailable or the save
\* failed leaves last_image_hash as it was, different from the image's hash,
\* so that the image is not a duplicate on the next cycle.
C9_HashOnlyAfterSave ==
  [][ /\ last_image_hash' # last_image_hash =>
           \E t \in Tasks :
             /\ pc[t] = "save_clipboard_image"
             /\ last_image_hash' = ImageHash(image_data[t])
             /\ files' = files \o << OriginalFile(image_data[t]),
                                     ThumbnailFile(image_data[t]) >>
             /\ events' = Append(events, ImageEvent(image_data[t]))
      /\ \A t \in Tasks :
           (outcome[t] = "none" /\ outcome'[t] \in ImageFailures) =>
             /\ last_image_hash' = last_image_hash
             /\ last_image_hash' # ImageHash(image_data[t]) ]_vars

\* C9 witness: a save failed after the original was written, the hash stayed
\* empty, and a later cycle processed the same image again and saved it
C9_Witness ==
  /\ files = << OriginalFile(ImgA), OriginalFile(ImgA), ThumbnailFile(ImgA) >>
  /\ last_image_hash = ImageHash(ImgA)
  /\ io_failures = 1

AcceptedOutcomes == { "text_accepted", "image_saved" }

\* C10: a cycle that ends accepted (text accepted, image saved) has emitted
\* exactly one event, a cycle that ends any other way has emitted none, and
\* the events are exactly those the cycles emitted.
C10_OneEventPerAccept ==
  /\ [](\A t \in Tasks :
          pc[t] = "sleep" =>
            emitted[t] = IF outcome[t] \in AcceptedOutcomes THEN 1 ELSE 0)
  /\ [][ \/ /\ events' = events
            /\ \A t \in Tasks : emitted'[t] <= emitted[t]
         \/ \E t \in Tasks :
              /\ Len(events') = Len(events) + 1
              /\ emitted'[t] = emitted[t] + 1
              /\ \A u \in Tasks \ { t } : emitted'[u] = emitted[u] ]_vars

\* C10 witness: after an accepted text (one event) a cycle ended with a
\* debounced repeat and emitted nothing
C10_Witness ==
  /\ Len(events) = 1
  /\ \E t \in Tasks : outcome[t] = "text_debounced" /\ emitted[t] = 0

\* C11: events are emitted in the order the changes were read.  After two
\* copies the clipboard has held the first text and then the text it holds
\* now, so every text read while the first was there was read before every
\* text read since: no event of an earlier text follows an event of the
\* text now on the clipboard.
C11_EmittedInObservedOrder ==
  (copies = 2 /\ clip_image = NoImage) =>
    \A i, j \in TextEvents :
      (i < j /\ events[i].content = clip_text) => events[j].content = clip_text

\* C12: a failure inside an iteration does not end the loop.  A step of a
\* task in which an I/O call fails (settings load, clipboard read, storage
\* directory, image decode or save) or which finds the clipboard empty
\* leaves is_running as it is and takes the task to the next step of the
\* iteration or to its sleep; the sleep ends at the loop condition, and the
\* loop condition with the flag set starts the next iteration.
C12_FailureKeepsLoop ==
  [][ \A t \in Tasks :
        /\ ( /\ InLoop(t)
             /\ pc'[t] # pc[t]
             /\ io_failures' > io_failures \/ outcome'[t] \in FailedOutcomes ) =>
             /\ is_running' = is_running
             /\ pc'[t] \in { "handle_clipboard_image", "save_clipboard_image",
                             "read_clipboard", "sleep" }
        /\ (pc[t] = "sleep" /\ pc'[t] # "sleep") => pc'[t] = "loop_top"
        /\ (pc[t] = "loop_top" /\ pc'[t] # "loop_top" /\ is_running) =>
             pc'[t] = "poll_image" ]_vars

\* C12 witness: the save of the thumbnail failed in one iteration, and the
\* loop, still running, is in a later iteration
C12_Witness ==
  /\ is_running
  /\ io_failures = 1
  /\ files = << OriginalFile(ImgA) >>
  /\ \E t \in Tasks : pc[t] = "poll_image"

ImageSteps == { "handle_clipboard_image", "save_clipboard_image" }

\* C13: images take priority over text.  An iteration that loads save_images
\* = true and finds an image enters the image branch; from there it reads no
\* text, evaluates no debounce, emits no text event and leaves last_content
\* and last_timestamp alone; it ends in a sleep of 500 ms, which does not end
\* early.
C13_ImagePriority ==
  [][ \A t \in Tasks :
        /\ ( /\ pc[t] = "poll_image"
             /\ pc'[t] # pc[t]
             /\ io_failures' = io_failures
             /\ settings.save_images
             /\ clip_image # NoImage ) => pc'[t] = "handle_clipboard_image"
        /\ (pc[t] \in ImageSteps /\ pc'[t] # pc[t]) =>
             /\ pc'[t] \in { "save_clipboard_image", "sleep", "panicked" }
             /\ outcome'[t] = "image_saved" => pc'[t] = "sleep"
             /\ pc'[t] = "sleep" => wake_at'[t] = now + 500
             /\ content'[t] = EmptyText
             /\ TextEvents' = TextEvents
             /\ last_content' = last_content
             /\ last_timestamp' = last_timestamp
        /\ (pc[t] = "sleep" /\ pc'[t] # "sleep") => now >= wake_at[t] ]_vars

\* C13 witness: an image and its companion text are on the clipboard, the
\* image was saved, the iteration sleeps and no text was captured
C13_Witness ==
  /\ clip_image = ImgA
  /\ clip_text = ImageCompanionText
  /\ last_content = EmptyText
  /\ TextEvents = { }
  /\ \E t \in Tasks :
       /\ pc[t] = "sleep"
       /\ outcome[t] = "image_saved"
       /\ wake_at[t] = now + 500

\* len > mb * 1024 * 1024 over the integers, for len >= 0 and any mb,
\* without forming the product
ExceedsMb(len, mb) ==
  \/ len \div BytesPerMb > mb
  \/ len \div BytesPerMb = mb /\ len % BytesPerMb > 0

\* C14: an image that is not a duplicate, checked against settings that were
\* loaded, is rejected for size if and only if its length is greater than
\* max_image_size_mb * 1024 * 1024, for every i32 max_image_size_mb; a
\* rejection writes no file and emits no event, and the iteration sleeps.
C14_SizePolicy ==
  [][ \A t \in Tasks :
        ( /\ pc[t] = "handle_clipboard_image"
          /\ pc'[t] # pc[t]
          /\ last_image_hash # ImageHash(image_data[t])
          /\ io_failures' = io_failures ) =>
          /\ outcome'[t] = "image_oversized"
               <=> ExceedsMb(image_data[t].png_len, settings.max_image_size_mb)
          /\ outcome'[t] = "image_oversized" =>
               (pc'[t] = "sleep" /\ files' = files /\ events' = events)
          /\ outcome'[t] # "image_oversized" => pc'[t] = "save_clipboard_image" ]_vars

\* C15: save_images is loaded in every iteration.  An iteration that loads
\* save_images = false reads no image and goes to the text branch, whatever
\* earlier iterations did; one that loads true and finds an image takes the
\* image; files and image events come only from an iteration that entered
\* the image branch this way.
C15_SaveImagesPolledEachCycle ==
  [][ \A t \in Tasks :
        /\ (pc[t] = "poll_image" /\ pc'[t] # pc[t] /\ io_failures' = io_failures) =>
             IF settings.save_images /\ clip_image # NoImage
             THEN pc'[t] = "handle_clipboard_image" /\ image_data'[t] = clip_image
             ELSE /\ pc'[t] = "read_clipboard"
                  /\ image_data'[t] = NoImage
                  /\ files' = files
                  /\ events' = events
        /\ (pc'[t] = "handle_clipboard_image" /\ pc[t] # pc'[t]) =>
             pc[t] = "poll_image"
        /\ (pc'[t] = "save_clipboard_image" /\ pc[t] # pc'[t]) =>
             pc[t] = "handle_clipboard_image"
        /\ (files' # files \/ Len(events') - Cardinality(TextEvents')
                                # Len(events) - Cardinality(TextEvents)) =>
             \E u \in Tasks : pc[u] = "save_clipboard_image" /\ pc'[u] # pc[u] ]_vars

\* C15 witness: the image was saved while save_images was true; save_images
\* was then set to false and the next iteration captured the companion text
\* of the image still on the clipboard, and no further image
C15_Witness ==
  /\ copies = 1
  /\ clip_image = ImgA
  /\ ~settings.save_images
  /\ io_failures = 0
  /\ events = << ImageEvent(ImgA), TextEvent(ImageCompanionText) >>
  /\ files = << OriginalFile(ImgA), ThumbnailFile(ImgA) >>

\* C16: an iteration whose settings load fails behaves as with save_images =
\* true and max_image_size_mb = 10.  With save_images = false in the file, a
\* failed load at the head of the iteration still takes the image on the
\* clipboard; a failed load in the size check never panics and rejects the
\* image if and only if it is longer than 10 * 1024 * 1024 bytes, whatever
\* the file holds.
C16_LoadFailureDefaults ==
  [][ \A t \in Tasks :
        /\ ( /\ pc[t] = "poll_image"
             /\ pc'[t] # pc[t]
             /\ ~settings.save_images
             /\ clip_image # NoImage
             /\ io_failures' = io_failures + 1 ) =>
             (pc'[t] = "handle_clipboard_image" /\ image_data'[t] = clip_image)
        /\ ( /\ pc[t] = "handle_clipboard_image"
             /\ pc'[t] # pc[t]
             /\ io_failures' > io_failures ) =>
             /\ pc'[t] # "panicked"
             /\ outcome'[t] = "image_oversized"
                  <=> image_data[t].png_len > 10 * 1024 * 1024
             /\ outcome'[t] # "image_oversized" =>
                  pc'[t] = "save_clipboard_image" ]_vars

\* C16 witness: the settings file holds a limit of 1 MiB, the load failed
\* and the image of exactly 10 MiB passed the size check
C16_Witness ==
  /\ settings.max_image_size_mb = 1
  /\ io_failures = 1
  /\ \E t \in Tasks :
       pc[t] = "save_clipboard_image" /\ image_data[t] = ImgAtLimit

\* C17: every text of the form local@domain.tld is classified Email, never
\* Url.
C17_EmailNeverUrl ==
  (call.fn = "detect_content_type" /\ call.text \in EmailTexts) =>
    call.tag = "Email"

ClassifierOrder ==
  << [tag |-> "Color", regex |-> HEX_COLOR_REGEX],
     [tag |-> "Url", regex |-> URL_REGEX],
     [tag |-> "Email", regex |-> EMAIL_REGEX],
     [tag |-> "Phone", regex |-> PHONE_REGEX],
     [tag |-> "Number", regex |-> NUMBER_REGEX],
     [tag |-> "Code", regex |-> CODE_REGEX] >>

Larger(a, b) == IF a >= b THEN a ELSE b

Smaller(a, b) == IF a <= b THEN a ELSE b

Distance(a, b) == IF a >= b THEN a - b ELSE b - a

\* C19: the thumbnail of an image of W x H pixels (W, H >= 1) has W x H
\* pixels if W <= 400 and H <= 400; otherwise its longer dimension is 400,
\* its shorter dimension is at most 400 and less than one pixel away from
\* the original's shorter dimension scaled by 400 / longer dimension.
C19_ThumbnailLaw ==
  call.fn = "generate_thumbnail" =>
    LET W == call.dims[1]
        H == call.dims[2]
        w == call.thumbnail[1]
        h == call.thumbnail[2]
    IN IF W <= 400 /\ H <= 400
       THEN w = W /\ h = H
       ELSE /\ Larger(w, h) = 400
            /\ Smaller(w, h) <= 400
            /\ W >= H => (w = 400 /\ Distance(h * W, 400 * H) < W)
            /\ H >= W => (h = 400 /\ Distance(w * H, 400 * W) < H)

SampledCoordinates(size) == { i \in 0 .. size - 1 : i % 10 = 0 }

RECURSIVE ChannelRow(_, _, _, _)
ChannelRow(img, xs, y, channel) ==
  IF xs = { } THEN 0
  ELSE LET x == CHOOSE i \in xs : TRUE
       IN Pixel(img, x, y)[channel] + ChannelRow(img, xs \ { x }, y, channel)

RECURSIVE ChannelSum(_, _, _, _)
ChannelSum(img, xs, ys, channel) ==
  IF ys = { } THEN 0
  ELSE LET y == CHOOSE i \in ys : TRUE
       IN ChannelRow(img, xs, y, channel) + ChannelSum(img, xs, ys \ { y }, channel)

HexDigitValue(c) == (CHOOSE i \in 1 .. 16 : UpperHexDigits[i] = c) - 1

\* C20: the dominant color of an image is none if and only if the image has
\* no pixel at coordinates that are multiples of 10, which is only when its
\* width or height is 0; otherwise it is '#' and six upper-case hex digits,
\* two per channel, giving the floor of the mean of the channel over the
\* pixels at coordinates that are multiples of 10.  So a uniform image gives
\* its color, and 100 x 100 pixels of red give #FF0000.
C20_DominantColor ==
  call.fn = "extract_dominant_color" =>
    LET img == call.img
        xs == SampledCoordinates(img.width)
        ys == SampledCoordinates(img.height)
        sampled == Cardinality(xs) * Cardinality(ys)
        hex == call.color.value
    IN /\ ~call.color.some <=> sampled = 0
       /\ ~call.color.some <=> (img.width = 0 \/ img.height = 0)
       /\ call.color.some =>
            /\ Len(hex) = 7
            /\ hex[1] = "#"
            /\ \A i \in 2 .. 7 : \E k \in 1 .. 16 : UpperHexDigits[k] = hex[i]
            /\ \A channel \in 1 .. 3 :
                 16 * HexDigitValue(hex[2 * channel])
                   + HexDigitValue(hex[2 * channel + 1])
                 = ChannelSum(img, xs, ys, channel) \div sampled
            /\ img.pattern = "uniform" =>
                 \A channel \in 1 .. 3 :
                   16 * HexDigitValue(hex[2 * channel])
                     + HexDigitValue(hex[2 * channel + 1]) = img.color[channel]
       /\ (img.pattern = "uniform" /\ img.color = << 255, 0, 0 >>
             /\ img.width = 100 /\ img.height = 100) =>
            call.color = Some(<< "#", "F", "F", "0", "0", "0", "0" >>)

\* C20 witness: the image of the unit test, half red and half blue, 100 x
\* 100 pixels: the mean of red over the 100 sampled pixels is 127.5
C20_Witness ==
  /\ call.fn = "extract_dominant_color"
  /\ call.img.pattern = "halves"
  /\ call.img.width = 100
  /\ call.img.height = 100
  /\ call.color = Some(<< "#", "7", "F", "0", "0", "7", "F" >>)

\* C21: the native icon lookup is made at most once per bundle id, whether
\* it finds an icon or not, however the calls of get_system_icon interleave;
\* and a call that begins after a result was returned for its bundle id
\* returns that same result.
C21_OneLookupPerBundle ==
  /\ \A b \in BundleIds : icon_lookups[b] <= 1
  /\ \A c \in Callers :
       icon_call[c].pc = "returned" =>
         \A icon \in icon_call[c].earlier : icon_call[c].icon = icon

\* the steps of a text cycle between the return of should_save with true
\* and the write of last_content and last_timestamp
Accepting == { "save_to_database", "update_last_content", "update_last_timestamp" }

\* C22: the debounce check and the update of last_content and last_timestamp
\* are one atomic step: while a task is between its decision to accept a
\* text and its write of the two fields, no other task reads them (the
\* comparison of should_save) or writes them, so two tasks never have the
\* same text accepted at the same time.
C22_DebounceAtomic ==
  /\ [][ \A t \in Tasks :
           pc[t] \in Accepting =>
             \A u \in Tasks \ { t } :
               /\ ~should_save_lock_timestamp(u)
               /\ ~update_lock_timestamp(u) ]_vars
  /\ [](\A t \in Tasks :
          \A u \in Tasks \ { t } :
            ~(pc[t] \in Accepting /\ pc[u] \in Accepting /\ content[t] = content[u]))

\* the steps that perform blocking I/O: the settings load and the clipboard
\* image read, the storage directory, image decode and encode, file writes
\* and the emit of the image branch, the clipboard text read, the emit of
\* the text branch
IoSteps == { "poll_image", "save_clipboard_image", "read_clipboard", "save_to_database" }

HoldsLock(t) ==
  \/ lock_last_content = t
  \/ lock_last_image_hash = t
  \/ lock_last_timestamp = t

\* C23: no task holds a lock of the shared state (last_content,
\* last_image_hash, last_timestamp; the is_running lock is only held inside
\* a step) while it performs blocking I/O.
C23_NoLockDuringIo ==
  \A t \in Tasks : pc[t] \in IoSteps => ~HoldsLock(t)

\* C24: whenever is_running is true, a poll-loop task is alive: spawned and
\* not yet run, in an iteration, in its sleep or at the loop condition.
C24_RunningHasLoop == is_running => \E t \in Tasks : Live(t)

AllTerminated == \A t \in Tasks : ~Live(t)

\* C25: after stop(), unless start() is called again, every poll-loop task
\* terminates (I/O calls return, tasks are scheduled, sleeps end); the flag
\* stays false, since only start() sets it; no iteration begins while the
\* flag is false, and an event emitted while it is false comes from an
\* iteration that was in course when stop() was called.
C25_StopTerminates ==
  /\ (~is_running) ~> (is_running \/ AllTerminated)
  /\ [][ /\ (~is_running /\ is_running') => start
         /\ \A t \in Tasks :
              /\ (~is_running /\ pc[t] = "loop_top" /\ pc'[t] # pc[t]) =>
                   pc'[t] = "done"
              /\ (~is_running /\ emitted'[t] > emitted[t]) => stop_seen[t] ]_vars

\* C25 witness: after a start(), an accepted text and a stop(), the loop has
\* returned and nothing is left running
C25_Witness ==
  /\ ~is_running
  /\ AllTerminated
  /\ \E t \in Tasks : pc[t] = "done"
  /\ events # << >>

\* the lock the next step of task t has to acquire
Waits(t) ==
  CASE pc[t] = "should_save" /\ ~should_ignore_content(content[t]) -> "last_content"
    [] pc[t] = "update_last_content" -> "last_content"
    [] pc[t] \in { "should_save_timestamp", "update_last_timestamp" } -> "last_timestamp"
    [] pc[t] = "handle_clipboard_image" -> "last_image_hash"
    [] OTHER -> "none"

Holder(lock) ==
  CASE lock = "last_content" -> lock_last_content
    [] lock = "last_timestamp" -> lock_last_timestamp
    [] lock = "last_image_hash" -> lock_last_image_hash
    [] OTHER -> NoTask

\* C26: the monitor is free of deadlock.  last_timestamp is only acquired
\* by the holder of last_content, last_content and last_image_hash only by
\* a task that holds nothing, and last_image_hash is never held with the
\* other two; the is_running lock is taken and released inside one step, by
\* a task at the loop condition that holds nothing.  So a task that holds a
\* lock is at a step that releases it and that it can take, and a task that
\* waits for a lock waits for another task that can run.
C26_DeadlockFree ==
  \A t \in Tasks :
    /\ Waits(t) = "last_timestamp" =>
         (lock_last_content = t /\ lock_last_image_hash # t)
    /\ Waits(t) \in { "last_content", "last_image_hash" } => ~HoldsLock(t)
    /\ lock_last_image_hash = t =>
         (lock_last_content # t /\ lock_last_timestamp # t)
    /\ pc[t] \in { "idle", "loop_top", "sleep" } \cup Ended => ~HoldsLock(t)
    /\ HoldsLock(t) =>
         /\ pc[t] \in { "should_save_timestamp", "update_last_timestamp",
                        "save_clipboard_image" }
         /\ ENABLED TaskStep(t)
    /\ (Waits(t) # "none" /\ Holder(Waits(t)) # NoTask) =>
         LET u == Holder(Waits(t))
         IN /\ u # t
            /\ Waits(u) = "none" \/ Holder(Waits(u)) = NoTask

\* C26 witness: a poll-loop task waits for last_content, which another task
\* holds
C26_Witness ==
  \E t \in Tasks :
    /\ Waits(t) = "last_content"
    /\ lock_last_content \notin { NoTask, t }

ImageEvents == { i \in 1 .. Len(events) : events[i].isImage }

Thumbnails == { i \in 1 .. Len(files) : files[i].thumb }

\* C27: the comparison with last_image_hash and its update are under one
\* hold of the lock: the task between the two holds the lock, and the hash
\* is only written by that task.  So, also with several poll-loop tasks
\* processing the same image at once, an image is saved (its thumbnail
\* written) and emitted at most once, unless another image was accepted in
\* between.
C27_ImageDedupAtomic ==
  /\ [](\A t \in Tasks :
          pc[t] = "save_clipboard_image" => lock_last_image_hash = t)
  /\ [][ last_image_hash' # last_image_hash =>
           \E t \in Tasks :
             /\ lock_last_image_hash = t
             /\ pc[t] = "save_clipboard_image"
             /\ pc'[t] = "sleep" ]_vars
  /\ [](\A i, j \in ImageEvents :
          (i < j /\ events[i].image = events[j].image) =>
            \E k \in ImageEvents : i < k /\ k < j /\ events[k].image # events[i].image)
  /\ [](\A i, j \in Thumbnails :
          (i < j /\ files[i].image = files[j].image) =>
            \E k \in Thumbnails : i < k /\ k < j /\ files[k].image # files[i].image)

\* C27 witness: two poll-loop tasks read the same image in the same period;
\* one saved it, the other found the hash stored and rejected it
C27_Witness ==
  \E t, u \in Tasks :
    /\ pc[t] = "sleep" /\ outcome[t] = "image_saved"
    /\ pc[u] = "sleep" /\ outcome[u] = "image_duplicate"
    /\ now = 0
    /\ events = << ImageEvent(ImgA) >>
    /\ files = << OriginalFile(ImgA), ThumbnailFile(ImgA) >>

TextSteps ==
  { "read_clipboard", "should_save", "should_save_timestamp", "save_to_database",
    "update_last_content", "update_last_timestamp" }

\* the hash of the image of the last image event, NoHash if there is none
LastAcceptedImageHash ==
  IF ImageEvents = { } THEN NoHash
  ELSE LET last == CHOOSE i \in ImageEvents : \A j \in ImageEvents : j <= i
       IN << "hash", events[last].image >>

\* C28: image dedup has no time window and does not depend on text.
\* last_image_hash is the hash of the last image accepted, whatever the time
\* and whatever texts were accepted since; an image with that hash is
\* rejected with no file and no event, at any time; no step of the text
\* branch changes last_image_hash and no step of the image branch changes
\* last_content or last_timestamp.
C28_ImageDedupNoWindow ==
  /\ [](last_image_hash = LastAcceptedImageHash)
  /\ [][ \A t \in Tasks :
           /\ ( /\ pc[t] = "handle_clipboard_image"
                /\ pc'[t] # pc[t]
                /\ last_image_hash = ImageHash(image_data[t]) ) =>
                /\ outcome'[t] = "image_duplicate"
                /\ pc'[t] = "sleep"
                /\ files' = files
                /\ events' = events
                /\ last_image_hash' = last_image_hash
           /\ (pc[t] \in TextSteps /\ pc'[t] # pc[t]) =>
                last_image_hash' = last_image_hash
           /\ (pc[t] \in ImageSteps /\ pc'[t] # pc[t]) =>
                (last_content' = last_content /\ last_timestamp' = last_timestamp) ]_vars

\* C28 witness: the image was accepted at 0 ms, its companion text was
\* accepted later (save_images off), and at 1500 ms, past the debounce
\* window, the same image was rejected as a duplicate
C28_Witness ==
  /\ events = << ImageEvent(ImgA), TextEvent(ImageCompanionText) >>
  /\ last_content = ImageCompanionText
  /\ now = 1500
  /\ \E t \in Tasks : outcome[t] = "image_duplicate" /\ wake_at[t] = 2000

ImageOutcomes ==
  { "image_saved", "image_duplicate", "image_oversized", "image_dir_unavailable",
    "image_save_failed" }

\* the settings never had save_images off
SaveImagesAlwaysOn ==
  settings_changes = 0 \/ \A s \in budget.settings : s.save_images

\* an image has been on the clipboard since the start, save_images was
\* always on and no read has failed
ImageStays ==
  copies = 1 /\ clip_image # NoImage /\ SaveImagesAlwaysOn /\ io_failures = 0

\* The text branch is entered only from the head of the iteration, when
\* there is no image, save_images is off or a read failed; an iteration in
\* the text branch holds no image; an iteration in the image branch has read
\* no text, and ends in its sleep (or panics) with one of the five image
\* outcomes, having emitted no text event.
IterationWithImageSkipsText ==
  /\ [](\A t \in Tasks :
          /\ pc[t] \in TextSteps => image_data[t] = NoImage
          /\ pc[t] \in ImageSteps => (content[t] = EmptyText /\ emitted[t] = 0)
          /\ (pc[t] = "sleep" /\ outcome[t] \in ImageOutcomes) =>
               emitted[t] = IF outcome[t] = "image_saved" THEN 1 ELSE 0)
  /\ [][ \A t \in Tasks :
           /\ (pc'[t] = "read_clipboard" /\ pc[t] # "read_clipboard") =>
                /\ pc[t] = "poll_image"
                /\ \/ clip_image = NoImage
                   \/ ~settings.save_images
                   \/ io_failures' > io_failures
           /\ (pc[t] \in ImageSteps /\ pc'[t] \notin ImageSteps) =>
                /\ pc'[t] \in { "sleep", "panicked" }
                /\ pc'[t] = "sleep" => outcome'[t] \in ImageOutcomes
                /\ TextEvents' = TextEvents ]_vars

\* C29, as claimed: an iteration that read an image skips the text branch
\* whatever becomes of the image, so while the image stays on the clipboard
\* (save_images on, no failed read) no text event is ever emitted.
C29_NoTextWhileImageStays ==
  /\ IterationWithImageSkipsText
  /\ [](ImageStays => TextEvents = { })

\* C29, amended: an iteration that read an image skips the text branch
\* whatever becomes of the image, so while the image stays on the clipboard
\* (save_images on, no failed read) no text event is emitted by an iteration
\* that begins after the image was put there; an iteration that looked for
\* an image before the copy and reads the text after it can emit that text,
\* once per poll loop at most.
C29_TextSkippedAfterImage ==
  /\ IterationWithImageSkipsText
  /\ [](ImageStays => Cardinality(TextEvents) <= NumSpawned)
  /\ [][ \A t \in Tasks :
           (ImageStays /\ ImageStays' /\ pc[t] = "poll_image" /\ pc'[t] # pc[t]) =>
             pc'[t] = "handle_clipboard_image" ]_vars

\* C29 witness: an oversized image and its companion text are on the
\* clipboard; the second iteration has rejected the image again, and no text
\* was emitted
C29_Witness ==
  /\ copies = 1
  /\ clip_image = ImgBig
  /\ clip_text = ImageCompanionText
  /\ now = 500
  /\ events = << >>
  /\ \E t \in Tasks : outcome[t] = "image_oversized" /\ wake_at[t] = 1000

RejectedTextOutcomes ==
  { "text_empty", "text_read_error", "text_ignored", "text_debounced" }

\* C30: a text cycle that does not accept leaves the debounce state as it
\* was.  The step that ends a cycle with the clipboard empty, the read
\* failed, the text ignored or the repeat debounced leaves last_content and
\* last_timestamp unchanged, and so does every step of the text branch but
\* the update of an accepted text; the two fields change only in that
\* update, to the text accepted and the time it was read: last_timestamp is
\* the time of the last accepted text, and a rejected repeat does not move
\* it.
C30_RejectLeavesDebounceState ==
  [][ /\ \A t \in Tasks :
           /\ (pc'[t] # pc[t] /\ outcome'[t] \in RejectedTextOutcomes) =>
                (last_content' = last_content /\ last_timestamp' = last_timestamp)
           /\ (pc[t] \in TextSteps \ { "update_last_timestamp" } /\ pc'[t] # pc[t]) =>
                (last_content' = last_content /\ last_timestamp' = last_timestamp)
      /\ (last_content' # last_content \/ last_timestamp' # last_timestamp) =>
           \E t \in Tasks :
             /\ pc[t] = "update_last_timestamp"
             /\ outcome'[t] = "text_accepted"
             /\ last_content' = content[t]
             /\ last_timestamp' = current_time[t] ]_vars

\* C30 witness: a text accepted at 0 ms was read again at 1000 ms and
\* rejected as a repeat; last_timestamp is still 0
C30_Witness ==
  /\ Len(events) = 1
  /\ last_content = clip_text
  /\ last_timestamp = 0
  /\ now = 1000
  /\ \E t \in Tasks : outcome[t] = "text_debounced" /\ wake_at[t] = 1500
====
